---- MODULE Spec2Model ----
(***************************************************************************)
(* A state-machine model of nite (src/src/nite.cpp, Linux backend): the    *)
(* frame/swapchain presenter, the pane stack, the scroll controller, the   *)
(* raw input decoder, PollEvent, the text input, the Text widget and the   *)
(* console back end with the terminal reading its output.  Every           *)
(* definition is a translation of the code named beside it.  The           *)
(* specifications share the variables:                                     *)
(*   SpecFrame  - BeginDrawing/EndDrawing, drawing, resizing, the presenter*)
(*   SpecPane   - the pane stack: Begin*Pane, BeginGridCell, EndPane        *)
(*   SpecClip   - one frame of panes and every drawing primitive           *)
(*   SpecScroll - one scroll pane fed with mouse events: the pivot         *)
(*   SpecParse  - one Parser over one text: the loop of parse_events       *)
(*   SpecInput  - con_read, Parser, PollRawEvent, the SIGWINCH handler     *)
(*   SpecPoll   - PollEvent's bookkeeping across frames                    *)
(*   SpecText   - TextInput's key handler over one TextInputState          *)
(*   SpecGrid   - BeginGridPane and BeginGridCell over weighted grids      *)
(*   SpecMouse  - one Parser over one SGR mouse report                     *)
(*   SpecFill   - the (pos, size) overloads of the Fill* primitives        *)
(*   SpecTerm   - frames presented to an observed terminal: the glyphs     *)
(*   SpecStyle  - frames presented to an observed terminal: the styles     *)
(*   SpecWidget - PollEvent and the Text widget's handlers                 *)
(*   SpecNest   - panes opened inside panes and inside a scroll pane       *)
(*   SpecClicks - one Parser over a run of mouse reports                   *)
(*   SpecCursor - the keys of SpecText and set_cursor calls                *)
(*   SpecRender - TextInput's keys and the styled text it renders          *)
(*   SpecBox    - ScrollBox::transform over viewports and pivots           *)
(***************************************************************************)
EXTENDS Integers, Sequences, FiniteSets, TLC

VARIABLES
    \* ---- State::StateImpl (nite.cpp:456-591)
    swapchain,      \* std::queue<CellBuffer>, front first
    box_stack,      \* std::vector<unique_ptr<Box>>, back last
    \* ---- terminal (console::size, console::set_cell, console::clear)
    window_size,    \* what console::size reports now
    writes,         \* console::set_cell calls made by the last EndDrawing
    cleared,        \* console::clear was called by the last EndDrawing
    \* ---- the application's position in its frame loop
    phase,          \* "idle" | "drawing" | "aborted" | "undefined"
    prev_buf,       \* EndDrawing's local prev_buf of the last call (NoBuffer: none)
    call_depth,     \* Begin* calls minus EndPane calls since BeginDrawing
    underflow,      \* some prefix of the frame held more EndPane than Begin*
    ndraws,         \* drawing calls issued in this frame
    \* ---- ScrollState, owned by the application
    scroll_pivot,   \* the pivot threaded across frames
    captured,       \* events captured for the scroll pane since its last Begin
    scroll_info,    \* the ScrollPaneInfo the application passes every frame
    \* ---- the terminal's input side and the clock
    tty,            \* bytes received and not yet read: chunks [bytes, at]
    arrivals,       \* every chunk that ever arrived, with its arrival time
    now,            \* high_resolution_clock::now(), in milliseconds
    signals,        \* SIGWINCH signals raised so far
    \* ---- PollRawEvent (nite.cpp:4308-4342) and its Parser
    pc,             \* where PollRawEvent stands: "idle" | "parse" | "drain" |
                    \*   "push_ev" | "release" | "push_release" | "deliver"
    text,           \* Parser::text
    index,          \* Parser::index
    prev_mcl_tp,    \* Parser::prev_mcl_tp (0: the clock's epoch)
    events,         \* the queue parse_events returns, drained by PollRawEvent
    pending_events, \* the static queue shared with the SIGWINCH handler
    inflight,       \* the element a push of PollRawEvent has constructed but
                    \*   not yet published (NoElement outside a push)
    delivered,      \* the events PollRawEvent has returned, in order
    decoded,        \* the events every Parser produced, key releases included
    resize_mark,    \* how many events had been decoded when the latest SIGWINCH
                    \*   was raised (-1: none raised yet)
    \* ---- the drawing call observed
    asked,          \* the coordinates the latest drawing call of the frame passed
                    \*   to set_cell / get_cell
    \* ---- State::StateImpl, events mechanism (nite.cpp:464-472)
    key_states,     \* unordered_map<KeyCode, KeyState>: a function on the keys seen
    btn_states,     \* array<BtnState, 4>, indexed by MouseButton
    mouse_pos,      \* Position
    mouse_scroll_v, \* intmax_t
    mouse_scroll_h, \* intmax_t
    \* ---- the application's TextInputState (nite.hpp:2104-2258)
    text_state,     \* the object: focus, insert_mode, data, cursor, selection_*
    last_key,       \* the event TextInput handled last, or the set_cursor call
                    \*   the application made last (NoElement: none yet)
    calls,          \* the handler invocations of the Text call made last
    rendered,       \* the styled text TextInputState::process returned last
    \* ---- internal::console statics (nite.cpp:2251-2253) and the terminal
    console,        \* prev_col, prev_row, prev_style
    terminal        \* the screen, the cursor and the rendition in force

frameVars == <<swapchain, box_stack, window_size, writes, cleared, phase,
               prev_buf, call_depth, underflow, ndraws>>
scrollVars == <<scroll_pivot, captured, scroll_info>>

inputVars == <<tty, arrivals, now, signals, pc, text, index, prev_mcl_tp, events,
               pending_events, inflight, delivered, decoded, resize_mark>>

pollVars == <<key_states, btn_states, mouse_pos, mouse_scroll_v, mouse_scroll_h>>

textVars == <<text_state, last_key, calls, rendered>>

termVars == <<console, terminal>>

vars == <<frameVars, scrollVars, inputVars, asked, pollVars, textVars, termVars>>

(***************************************************************************)
(* Bounds of the model                                                     *)
(***************************************************************************)
MaxDepth == 3       \* deepest pane stack explored
MaxDraws == 2       \* drawing calls per frame
MaxCaptured == 2    \* events captured for a scroll pane between two frames
MaxPivot == 4       \* no more events are fed once a pivot coordinate is above this
MaxArrivals == 2    \* reports the terminal sends
MaxSignals == 1     \* SIGWINCH signals raised
MaxChunks == 2      \* sequences in the text of the single-read specification
StartTime == 1000   \* the clock at the start, in milliseconds since its epoch
TickMs == 250       \* the clock advances in steps of this many milliseconds
MaxTime == 1750     \* the clock stops here

\* size_t is unsigned and wraps; the model keeps the wrap at a reduced width
SizeBits == 16
SizeMod == 2 ^ SizeBits
WrapSize(n) == n % SizeMod

(***************************************************************************)
(* Position, Size, Style, Cell, CellBuffer                                 *)
(***************************************************************************)
Pos(c, r) == [col |-> c, row |-> r]
Sz(w, h) == [width |-> w, height |-> h]

\* Position::operator+ (no overflow arises within the sizes explored)
PosAdd(p, q) == Pos(p.col + q.col, p.row + q.row)

\* Style{} : bg 0x000000, fg 0xffffff, mode STYLE_RESET
DefaultStyle == [bg |-> "000000", fg |-> "ffffff", mode |-> {"RESET"}]

\* Cell{} : value ' ', style {}
DefaultCell == [value |-> " ", style |-> DefaultStyle]

\* Style::operator== / Cell::operator== : field-wise
StyleEq(a, b) == a.bg = b.bg /\ a.fg = b.fg /\ a.mode = b.mode
CellEq(a, b) == a.value = b.value /\ StyleEq(a.style, b.style)

\* CellBuffer(size): width*height default cells, row-major, index row*width+col
CellBuffer(size) ==
    [width |-> size.width, height |-> size.height,
     cells |-> [i \in 0 .. (size.width * size.height - 1) |-> DefaultCell]]

buffer_size(buf) == Sz(buf.width, buf.height)
buffer_contains(buf, col, row) == col < buf.width /\ row < buf.height
buffer_at(buf, col, row) == buf.cells[row * buf.width + col]

NoBuffer == [width |-> 0, height |-> 0, cells |-> <<>>, none |-> TRUE]

\* inflight outside a push, and after the handler pushed into the same slot
NoElement == [type |-> "none"]
Clobbered == [type |-> "clobbered"]

\* KeyState{} and BtnState{}
KeyState(printable, down) == [printable |-> printable, down |-> down]
BtnState == [click1_count |-> 0, click2_count |-> 0]
MouseButtons == <<"NONE", "LEFT", "MIDDLE", "RIGHT">>

\* TextInputState{}
EmptyTextInput ==
    [focus |-> TRUE, insert_mode |-> FALSE, data |-> <<>>, cursor |-> 0,
     selection_mode |-> FALSE, selection_pivot |-> 0]

\* StateImpl's event members and the application's widget state after
\* construction
InitPollState ==
    /\ text_state = EmptyTextInput
    /\ last_key = NoElement
    /\ calls = [on_hover |-> 0, on_click |-> 0, on_menu |-> 0, on_click2 |-> 0]
    /\ rendered = <<>>
    /\ key_states = <<>>
    /\ btn_states = [b \in {MouseButtons[k] : k \in DOMAIN MouseButtons} |-> BtnState]
    /\ mouse_pos = Pos(0, 0)
    /\ mouse_scroll_v = 0
    /\ mouse_scroll_h = 0


\* struct MouseEvent; modifiers is the set of the KEY_* bits that are set
MouseEvent(kind, button, pos, modifiers) ==
    [type |-> "mouse", kind |-> kind, button |-> button, pos |-> pos, modifiers |-> modifiers]

(***************************************************************************)
(* Boxes (nite.cpp:210-440).  One record shape for the four variants.      *)
(***************************************************************************)
NoBox ==
    [kind |-> "NoBox", pos |-> Pos(0, 0), size |-> Sz(0, 0),
     pivot |-> Pos(0, 0), max_size |-> Sz(0, 0),
     scroll_home |-> FALSE, hscroll_bar |-> FALSE, vscroll_bar |-> FALSE,
     num_cols |-> 0, num_rows |-> 0, grid |-> <<>>]

StaticBox(p, s) == [NoBox EXCEPT !.kind = "StaticBox", !.pos = p, !.size = s]

\* ScrollBox: size is min_size (get_size returns min_size)
ScrollBox(home, hbar, vbar, p, piv, mins, maxs) ==
    [NoBox EXCEPT !.kind = "ScrollBox", !.pos = p, !.size = mins,
                  !.pivot = piv, !.max_size = maxs, !.scroll_home = home,
                  !.hscroll_bar = hbar, !.vscroll_bar = vbar]

\* GridBox constructor: every cell box is moved by the grid's position
GridBox(p, s, ncols, nrows, g) ==
    [NoBox EXCEPT !.kind = "GridBox", !.pos = p, !.size = s,
                  !.num_cols = ncols, !.num_rows = nrows,
                  !.grid = [i \in 1 .. Len(g) |->
                              [pos |-> PosAdd(p, g[i].pos), size |-> g[i].size]]]

get_pos(box) == box.pos
get_size(box) == box.size

\* Box::contains(col,row): NoBox never; the others test the rectangle at pos
box_contains(box, col, row) ==
    /\ box.kind # "NoBox"
    /\ box.pos.col <= col /\ col < box.pos.col + box.size.width
    /\ box.pos.row <= row /\ row < box.pos.row + box.size.height

\* (mutant) every box adds its position and accepts every coordinate
box_transform_ignores_pivot(box, col, row) ==
    IF box.kind = "NoBox" THEN [ok |-> FALSE, col |-> col, row |-> row]
    ELSE [ok |-> TRUE, col |-> col + box.pos.col, row |-> row + box.pos.row]

\* Box::transform(col,row): [ok, col, row]
box_transform(box, col, row) ==
    CASE box.kind = "NoBox" -> [ok |-> FALSE, col |-> col, row |-> row]
      [] box.kind = "ScrollBox" ->
            IF /\ box.pivot.col <= col /\ col < box.pivot.col + box.size.width
               /\ box.pivot.row <= row /\ row < box.pivot.row + box.size.height
            THEN [ok |-> TRUE, col |-> col + box.pos.col - box.pivot.col,
                  row |-> row + box.pos.row - box.pivot.row]
            ELSE [ok |-> FALSE, col |-> col, row |-> row]
      [] OTHER -> [ok |-> TRUE, col |-> col + box.pos.col, row |-> row + box.pos.row]

\* (variant: an index out of range is clamped to the last cell)
get_grid_cell_clamped(box, col, row) ==
    StaticBox(box.grid[IF col >= box.num_cols \/ row >= box.num_rows
                       THEN Len(box.grid) ELSE row * box.num_cols + col + 1].pos,
              box.grid[IF col >= box.num_cols \/ row >= box.num_rows
                       THEN Len(box.grid) ELSE row * box.num_cols + col + 1].size)

\* GridBox::get_grid_cell
get_grid_cell(box, col, row) ==
    IF col >= box.num_cols \/ row >= box.num_rows
    THEN NoBox
    ELSE StaticBox(box.grid[row * box.num_cols + col + 1].pos,
                   box.grid[row * box.num_cols + col + 1].size)

(***************************************************************************)
(* State::StateImpl operations                                             *)
(***************************************************************************)
\* (mutant) a culled pane is not pushed at all
emplace_box_skips_nobox(stack, box) ==
    IF box.kind = "NoBox" THEN stack ELSE Append(stack, box)

\* emplace_box / push_box: one box appended
emplace_box(stack, box) == Append(stack, box)

\* (mutant) the box is left on the stack
pop_box_keeps(stack) == stack

\* pop_box (its assert is the caller's guard)
pop_box(stack) == SubSeq(stack, 1, Len(stack) - 1)

get_current_box(stack) == stack[Len(stack)]

\* push_buffer(size): a fresh buffer of GetWindowSize() at the back of the
\* swapchain; the box stack is cleared and the root StaticBox pushed
push_buffer_chain(chain, wsize) == Append(chain, CellBuffer(wsize))
push_buffer_stack(size) == emplace_box(<<>>, StaticBox(Pos(0, 0), size))

\* StateImpl::set_cell: transform by the current box, clip against the box
\* and the back buffer, then store value and the style's channels
state_set_cell(chain, box, col, row, value, style) ==
    LET t == box_transform(box, col, row)
        buffer == chain[Len(chain)]
        i == t.row * buffer.width + t.col
        old == buffer.cells[i]
        new == [value |-> value,
                style |-> [fg |-> IF "NO_FG" \in style.mode THEN old.style.fg ELSE style.fg,
                           bg |-> IF "NO_BG" \in style.mode THEN old.style.bg ELSE style.bg,
                           mode |-> style.mode \ {"NO_FG", "NO_BG"}]]
    IN  IF ~t.ok THEN chain
        ELSE IF ~box_contains(box, t.col, t.row) THEN chain
        ELSE IF ~buffer_contains(buffer, t.col, t.row) THEN chain
        ELSE [chain EXCEPT ![Len(chain)].cells[i] = new]

RECURSIVE set_cells(_, _, _, _, _)
set_cells(chain, box, ps, value, style) ==
    IF ps = <<>> THEN chain
    ELSE set_cells(state_set_cell(chain, box, Head(ps).col, Head(ps).row, value, style),
                   box, Tail(ps), value, style)

Span(a, b) == IF b > a THEN b - a ELSE 0

\* DrawLine: the cells it sets, in order (vertical, horizontal, sloped)
DrawLinePoints(start, end) ==
    IF start.col = end.col
    THEN [k \in 1 .. Span(start.row, end.row) |-> Pos(start.col, start.row + k - 1)]
    ELSE IF start.row = end.row
    THEN [k \in 1 .. Span(start.col, end.col) |-> Pos(start.col + k - 1, start.row)]
    ELSE [k \in 1 .. Span(start.col, end.col) |->
            Pos(start.col + k - 1,
                (start.row * (end.col - start.col) + (k - 1) * (end.row - start.row))
                    \div (end.col - start.col))]

DrawLine(chain, box, start, end, fill, style) ==
    set_cells(chain, box, DrawLinePoints(start, end), fill, style)

\* State::get_cell: the index in the back buffer of the cell whose reference
\* is returned, -1 for the static sentinel.  The box's position is added to
\* the coordinate; Box::transform is not called
get_cell_index(buffer, box, col, row) ==
    IF buffer_contains(buffer, col, row) /\ box_contains(box, col, row)
    THEN row * buffer.width + col
    ELSE -1

state_get_cell(chain, box, col, row) ==
    get_cell_index(chain[Len(chain)], box, col + get_pos(box).col, row + get_pos(box).row)

\* the assignments made through that reference: .style, .style.bg, .style.fg
restyled(cell, field, v) ==
    CASE field = "style" -> [cell EXCEPT !.style = v]
      [] field = "bg" -> [cell EXCEPT !.style.bg = v]
      [] field = "fg" -> [cell EXCEPT !.style.fg = v]

\* a write to the sentinel is never seen in a buffer
restyle_at(chain, i, field, v) ==
    IF i < 0 THEN chain
    ELSE [chain EXCEPT ![Len(chain)].cells[i] = restyled(@, field, v)]

RECURSIVE restyle_cells(_, _, _, _, _)
restyle_cells(chain, box, ps, field, v) ==
    IF ps = <<>> THEN chain
    ELSE restyle_cells(restyle_at(chain, state_get_cell(chain, box, Head(ps).col, Head(ps).row),
                                  field, v),
                       box, Tail(ps), field, v)

\* the nested loops of the Fill* functions: rows outside, columns inside
LoopPoints(col_start, col_end, row_start, row_end) ==
    [k \in 1 .. Span(col_start, col_end) * Span(row_start, row_end) |->
        Pos(col_start + ((k - 1) % Span(col_start, col_end)),
            row_start + ((k - 1) \div Span(col_start, col_end)))]

MinOf(a, b) == IF a < b THEN a ELSE b
MaxOf(a, b) == IF a < b THEN b ELSE a

\* Fill*(pos1, pos2): the half-open rectangle between the two corners
CornerPoints(pos1, pos2) ==
    LoopPoints(MinOf(pos1.col, pos2.col), MaxOf(pos1.col, pos2.col),
               MinOf(pos1.row, pos2.row), MaxOf(pos1.row, pos2.row))

\* Fill*(pos, size): row_end is pos.col + size.height
SizedPoints(pos, size) ==
    LoopPoints(pos.col, pos.col + size.width, pos.row, pos.col + size.height)

\* Fill*(color): every coordinate below the selected box's size
BoxPoints(box) == LoopPoints(0, get_size(box).width, 0, get_size(box).height)

SeqRange(q) == {q[k] : k \in DOMAIN q}

(***************************************************************************)
(* Inputs explored by the frame specification                              *)
(***************************************************************************)
WindowSizes == {Sz(0, 0), Sz(2, 1), Sz(2, 2)}
PaneWindow == Sz(3, 3)
Glyphs == {"a"}
RedBold == [bg |-> "000000", fg |-> "ff0000", mode |-> {"BOLD"}]
Styles == {DefaultStyle, RedBold}
DrawPositions == {Pos(c, r) : c \in 0 .. 2, r \in 0 .. 1}
PaneRects == {[pos |-> Pos(0, 0), size |-> Sz(1, 1)],
              [pos |-> Pos(1, 0), size |-> Sz(2, 2)]}

\* ScrollPaneInfo values: pos, min_size, max_size, scroll_factor (num/den),
\* and the three show_* flags
ScrollInfo(p, mins, maxs, num, den, v, h, home) ==
    [pos |-> p, min_size |-> mins, max_size |-> maxs,
     factor_num |-> num, factor_den |-> den,
     show_vscroll_bar |-> v, show_hscroll_bar |-> h, show_scroll_home |-> home]
FrameScrollInfos ==
    {ScrollInfo(Pos(0, 0), Sz(3, 3), Sz(5, 5), 1, 1, TRUE, TRUE, TRUE)}

\* GridPaneInfo values: pos, size, col_sizes, row_sizes (percentages)
GridInfos == {[pos |-> Pos(0, 0), size |-> Sz(2, 2),
               col_sizes |-> <<50, 50>>, row_sizes |-> <<100>>]}
GridIndexes == 0 .. 2

(***************************************************************************)
(* Scroll controller (nite.cpp:850-962)                                    *)
(***************************************************************************)
\* value *= info.scroll_factor : int64 -> float -> int64, truncating
ScaleByFactor(value, info) ==
    IF value >= 0
    THEN (value * info.factor_num) \div info.factor_den
    ELSE -(((-value) * info.factor_num) \div info.factor_den)

\* the pivot arithmetic shared by scroll_vertical and scroll_horizontal:
\* p is the pivot coordinate, maxs/mins the sizes on that axis
scroll_axis(p, show, info, maxs, mins, count) ==
    LET value == ScaleByFactor(count, info)
        moved == IF value > 0 THEN WrapSize(p + value)
                 ELSE IF (-value) <= p THEN p + value ELSE 0
    IN  IF ~show THEN p
        ELSE IF value = 0 THEN p
        ELSE IF moved >= WrapSize(maxs - mins)
             THEN WrapSize(maxs - mins - 1)
             ELSE moved

scroll_vertical(pivot, info, value) ==
    [pivot EXCEPT !.row = scroll_axis(pivot.row, info.show_vscroll_bar, info,
                                      info.max_size.height, info.min_size.height, value)]

scroll_horizontal(pivot, info, value) ==
    [pivot EXCEPT !.col = scroll_axis(pivot.col, info.show_hscroll_bar, info,
                                      info.max_size.width, info.min_size.width, value)]

\* Position::operator- on size_t, Position::operator+ likewise
PosSubWrap(p, q) == Pos(WrapSize(p.col - q.col), WrapSize(p.row - q.row))
PosAddWrap(p, q) == Pos(WrapSize(p.col + q.col), WrapSize(p.row + q.row))

\* the five button cells of BeginScrollPane
left_scroll_btn(info) == PosAddWrap(Pos(0, WrapSize(info.min_size.height - 1)), info.pos)
right_scroll_btn(info) ==
    PosAddWrap(Pos(WrapSize(info.min_size.width - 2), WrapSize(info.min_size.height - 1)), info.pos)
top_scroll_btn(info) == PosAddWrap(Pos(WrapSize(info.min_size.width - 1), 0), info.pos)
bottom_scroll_btn(info) ==
    PosAddWrap(Pos(WrapSize(info.min_size.width - 1), WrapSize(info.min_size.height - 2)), info.pos)
home_cell_btn(info) ==
    PosAddWrap(Pos(WrapSize(info.min_size.width - 1), WrapSize(info.min_size.height - 1)), info.pos)

IsClick(ev) == ev.kind \in {"CLICK", "DOUBLE_CLICK"} /\ ev.button = "LEFT"
InViewport(ev, info, pane) ==
    box_contains(StaticBox(PosAddWrap(pane, info.pos), info.min_size), ev.pos.col, ev.pos.row)

\* one captured event's contribution to hscroll_count / vscroll_count
HDelta(ev, info, pane) ==
    CASE IsClick(ev) ->
            (IF PosSubWrap(ev.pos, pane) = left_scroll_btn(info) THEN -1 ELSE 0)
          + (IF PosSubWrap(ev.pos, pane) = right_scroll_btn(info) THEN 1 ELSE 0)
      [] ev.kind = "SCROLL_LEFT" /\ InViewport(ev, info, pane) -> -1
      [] ev.kind = "SCROLL_RIGHT" /\ InViewport(ev, info, pane) -> 1
      [] OTHER -> 0

VDelta(ev, info, pane) ==
    CASE IsClick(ev) ->
            (IF PosSubWrap(ev.pos, pane) = top_scroll_btn(info) THEN -1 ELSE 0)
          + (IF PosSubWrap(ev.pos, pane) = bottom_scroll_btn(info) THEN 1 ELSE 0)
      [] ev.kind = "SCROLL_UP" /\ InViewport(ev, info, pane) -> -1
      [] ev.kind = "SCROLL_DOWN" /\ InViewport(ev, info, pane) -> 1
      [] OTHER -> 0

RECURSIVE SumH(_, _, _)
SumH(evs, info, pane) ==
    IF evs = <<>> THEN 0 ELSE HDelta(Head(evs), info, pane) + SumH(Tail(evs), info, pane)

RECURSIVE SumV(_, _, _)
SumV(evs, info, pane) ==
    IF evs = <<>> THEN 0 ELSE VDelta(Head(evs), info, pane) + SumV(Tail(evs), info, pane)

\* a home-button click among the captured events: scroll_state.set_pivot({})
RECURSIVE PivotAfterEvents(_, _, _, _)
PivotAfterEvents(pivot, evs, info, pane) ==
    IF evs = <<>> THEN pivot
    ELSE PivotAfterEvents(
            IF IsClick(Head(evs)) /\ PosSubWrap(Head(evs).pos, pane) = home_cell_btn(info)
            THEN Pos(0, 0) ELSE pivot,
            Tail(evs), info, pane)

\* the pivot BeginScrollPane leaves in the ScrollState
BeginScrollPanePivot(pivot, evs, info, pane) ==
    scroll_vertical(
        scroll_horizontal(PivotAfterEvents(pivot, evs, info, pane), info, SumH(evs, info, pane)),
        info, SumV(evs, info, pane))

(***************************************************************************)
(* Pane stack (nite.cpp:841-1059)                                          *)
(***************************************************************************)
\* BeginGridPane computes in double.  Every double it meets is a sum of
\* weight / 100.0 terms and is kept exactly, as
\*     hundredths / 100 + err / (100 * 2^60)
\* hundredths is the sum of the weights (whole numbers of percent) and err is
\* what IEEE 754 round-to-nearest-even (53-bit significand) has added so far.
RECURSIVE Pow2(_)
Pow2(n) == IF n = 0 THEN 1 ELSE 2 * Pow2(n - 1)
RECURSIVE Log2Floor(_)
Log2Floor(n) == IF n < 2 THEN 0 ELSE 1 + Log2Floor(n \div 2)
RECURSIVE Pow2Mod(_, _)
Pow2Mod(n, m) == IF n = 0 THEN 1 % m ELSE (2 * Pow2Mod(n - 1, m)) % m

Double(hundredths, err) == [hundredths |-> hundredths, err |-> err]

\* 2^e <= hundredths / 100 + err / (100 * 2^60)
AtLeastPow2(hundredths, err, e) ==
    IF e >= 0
    THEN hundredths > 100 * Pow2(e) \/ (hundredths = 100 * Pow2(e) /\ err >= 0)
    ELSE hundredths * Pow2(0 - e) > 100 \/ (hundredths * Pow2(0 - e) = 100 /\ err >= 0)

\* the binary exponent of a value in (0, 4)
RECURSIVE exponent_from(_, _, _)
exponent_from(hundredths, err, e) ==
    IF AtLeastPow2(hundredths, err, e) THEN e ELSE exponent_from(hundredths, err, e - 1)

\* rounding to the doubles of one binade, which are the multiples of
\* grain / (100 * 2^60) with grain = 100 * 2^shift: rho is what the exact
\* value exceeds such a multiple by, up_even says the multiple below has an
\* odd significand
round_rem(hundredths, err, grain, rem, up_even) ==
    IF 2 * rem < grain \/ (2 * rem = grain /\ ~up_even)
    THEN Double(hundredths, err - rem)
    ELSE Double(hundredths, err - rem + grain)

round_rho(hundredths, err, shift, grain, rho) ==
    round_rem(hundredths, err, grain, rho % grain,
              (((hundredths * Pow2Mod(60 - shift, 200)) % 200) \div 100 + rho \div grain) % 2 = 1)

round_at(hundredths, err, shift) ==
    round_rho(hundredths, err, shift, 100 * Pow2(shift),
              Pow2(shift) * ((hundredths * Pow2Mod(60 - shift, 100)) % 100) + err)

\* the double nearest to hundredths / 100 + err / (100 * 2^60)
round_nearest(hundredths, err) ==
    IF hundredths = 0 THEN Double(0, 0)
    ELSE round_at(hundredths, err, 8 + exponent_from(hundredths, err, 1))

\* weight / 100.0
percent(weight) == round_nearest(weight, 0)

\* progress += weight / 100.0
progress_add(progress, term) ==
    round_nearest(progress.hundredths + term.hundredths, progress.err + term.err)

\* the binary exponent of the doubles just below the whole number n >= 1
exponent_below(n) == Log2Floor(n) - (IF n = Pow2(Log2Floor(n)) THEN 1 ELSE 0)

\* static_cast<size_t>(d * extent): the product is rounded to a double and
\* then truncated.  Only a product that is a whole number n but for err can
\* round across one: from below n it rounds to n when it is no further from
\* n than half the distance of n to the double before it.
to_size(d, extent) ==
    IF (d.hundredths * extent) % 100 # 0 \/ d.err >= 0 \/ extent = 0
    THEN (d.hundredths * extent) \div 100
    ELSE IF (0 - d.err) * extent
               <= 100 * Pow2(7 + exponent_below((d.hundredths * extent) \div 100))
    THEN (d.hundredths * extent) \div 100
    ELSE (d.hundredths * extent) \div 100 - 1

\* col_progress / row_progress before cell n (counted from 0)
RECURSIVE progress_before(_, _)
progress_before(sizes, n) ==
    IF n = 0 THEN Double(0, 0)
    ELSE progress_add(progress_before(sizes, n - 1), percent(sizes[n]))

\* the exact sum of the first n weights
RECURSIVE SumSeq(_, _)
SumSeq(q, n) == IF n = 0 THEN 0 ELSE q[n] + SumSeq(q, n - 1)

\* the cell BeginGridPane computes for column col and row row, relative to
\* the grid
grid_cell(info, col, row) ==
    [pos |-> Pos(to_size(progress_before(info.col_sizes, col), info.size.width),
                 to_size(progress_before(info.row_sizes, row), info.size.height)),
     size |-> Sz(to_size(percent(info.col_sizes[col + 1]), info.size.width),
                 to_size(percent(info.row_sizes[row + 1]), info.size.height))]

\* BeginGridPane's partition: one StaticBox per cell, row-major, positions
\* relative to the grid
grid_cells(info) ==
    [i \in 1 .. Len(info.col_sizes) * Len(info.row_sizes) |->
        grid_cell(info, (i - 1) % Len(info.col_sizes), (i - 1) \div Len(info.col_sizes))]

\* EndPane's scrollbar decorations for a ScrollBox on top of the stack,
\* drawn through SetCell / DrawLine with SCROLL_DEFAULT
scroll_home_drawn(chain, box) ==
    IF box.scroll_home
    THEN state_set_cell(chain, box,
            WrapSize(box.size.width - 1) + box.pivot.col,
            WrapSize(box.size.height - 1) + box.pivot.row, "x", DefaultStyle)
    ELSE chain

vscroll_drawn(chain, box) ==
    LET min_size == box.size
        max_size == box.max_size
        pivot == box.pivot
        vscroll_start == PosAddWrap(Pos(WrapSize(min_size.width - 1), 1), pivot)
        vscroll_end == PosAddWrap(Pos(WrapSize(min_size.width - 1), WrapSize(min_size.height - 2)), pivot)
        len == WrapSize(vscroll_end.row - vscroll_start.row)
        top == PosAddWrap(Pos(WrapSize(min_size.width - 1), 0), pivot)
        row == (pivot.row * len) \div max_size.height
        node_start == PosAddWrap(Pos(WrapSize(min_size.width - 1), row + 1), pivot)
        max_row == (WrapSize(max_size.height - min_size.height - 1) * len) \div max_size.height
        node_height == WrapSize(len - max_row)
        c1 == DrawLine(chain, box, vscroll_start, vscroll_end, "|", DefaultStyle)
        c2 == state_set_cell(c1, box, top.col, top.row, "+", DefaultStyle)
        c3 == state_set_cell(c2, box, vscroll_end.col, vscroll_end.row, "+", DefaultStyle)
    IN  IF box.vscroll_bar /\ min_size.height < max_size.height
        THEN DrawLine(c3, box, node_start,
                      Pos(node_start.col, WrapSize(node_start.row + node_height)),
                      "*", DefaultStyle)
        ELSE chain

hscroll_drawn(chain, box) ==
    LET min_size == box.size
        max_size == box.max_size
        pivot == box.pivot
        hscroll_start == PosAddWrap(Pos(1, WrapSize(min_size.height - 1)), pivot)
        hscroll_end == PosAddWrap(Pos(WrapSize(min_size.width - 2), WrapSize(min_size.height - 1)), pivot)
        len == WrapSize(hscroll_end.col - hscroll_start.col)
        left == PosAddWrap(Pos(0, WrapSize(min_size.height - 1)), pivot)
        col == (pivot.col * len) \div max_size.width
        node_start == PosAddWrap(Pos(col + 1, WrapSize(min_size.height - 1)), pivot)
        max_col == (WrapSize(max_size.width - min_size.width - 1) * len) \div max_size.width
        node_width == WrapSize(len - max_col)
        c1 == DrawLine(chain, box, hscroll_start, hscroll_end, "-", DefaultStyle)
        c2 == state_set_cell(c1, box, left.col, left.row, "+", DefaultStyle)
        c3 == state_set_cell(c2, box, hscroll_end.col, hscroll_end.row, "+", DefaultStyle)
    IN  IF box.hscroll_bar /\ min_size.width < max_size.width
        THEN DrawLine(c3, box, node_start,
                      Pos(WrapSize(node_start.col + node_width), node_start.row),
                      "*", DefaultStyle)
        ELSE chain

EndPaneDrawn(chain, box) ==
    IF box.kind = "ScrollBox"
    THEN hscroll_drawn(vscroll_drawn(scroll_home_drawn(chain, box), box), box)
    ELSE chain

\* a failed assert(): the debug build aborts, the NDEBUG build runs on into
\* undefined behaviour (back()/pop_back() of an empty vector)
Fatal ==
    /\ phase' \in {"aborted", "undefined"}
    /\ UNCHANGED <<swapchain, box_stack, window_size, writes, cleared, prev_buf,
                   call_depth, underflow, ndraws, scroll_pivot, captured, scroll_info>>

Drawing == phase = "drawing"

\* bookkeeping of one Begin* call
BeganOne ==
    /\ call_depth' = call_depth + 1
    /\ UNCHANGED <<swapchain, window_size, writes, cleared, phase, prev_buf,
                   underflow, ndraws>>

\* (mutant) BeginPane opens its rectangle even below a NoBox
BeginPane_below_nobox(top_left, size) ==
    /\ UNCHANGED <<inputVars, asked, pollVars, textVars, termVars>>
    /\ Drawing /\ Len(box_stack) < MaxDepth
    /\ IF box_stack = <<>> THEN Fatal
       ELSE /\ box_stack' = emplace_box(box_stack,
                  StaticBox(PosAdd(get_pos(get_current_box(box_stack)), top_left), size))
            /\ BeganOne
            /\ UNCHANGED scrollVars

\* the box a Begin* pushes when the top is a NoBox: a copy of it
BeginPane(top_left, size) ==
    /\ UNCHANGED <<inputVars, asked, pollVars, textVars, termVars>>
    /\ Drawing /\ Len(box_stack) < MaxDepth
    /\ IF box_stack = <<>> THEN Fatal
       ELSE /\ box_stack' =
                  IF get_current_box(box_stack).kind = "NoBox"
                  THEN emplace_box(box_stack, NoBox)
                  ELSE emplace_box(box_stack,
                          StaticBox(PosAdd(get_pos(get_current_box(box_stack)), top_left), size))
            /\ BeganOne
            /\ UNCHANGED scrollVars

BeginScrollPane(info) ==
    /\ UNCHANGED <<inputVars, asked, pollVars, textVars, termVars>>
    /\ Drawing /\ Len(box_stack) < MaxDepth
    /\ IF box_stack = <<>> THEN Fatal
       ELSE IF get_current_box(box_stack).kind = "NoBox"
       THEN /\ box_stack' = emplace_box(box_stack, NoBox)
            /\ BeganOne
            /\ UNCHANGED scrollVars
       ELSE LET pane == get_pos(get_current_box(box_stack))
                pivot == BeginScrollPanePivot(scroll_pivot, captured, info, pane)
            IN  /\ scroll_pivot' = pivot
                /\ captured' = <<>>
                /\ box_stack' = emplace_box(box_stack,
                      ScrollBox(info.show_scroll_home, info.show_hscroll_bar,
                                info.show_vscroll_bar, PosAdd(pane, info.pos), pivot,
                                info.min_size, info.max_size))
                /\ UNCHANGED scroll_info
                /\ BeganOne

BeginGridPane(info) ==
    /\ UNCHANGED <<inputVars, asked, pollVars, textVars, termVars>>
    /\ Drawing /\ Len(box_stack) < MaxDepth
    /\ IF box_stack = <<>> THEN Fatal
       ELSE /\ box_stack' =
                  IF get_current_box(box_stack).kind = "NoBox"
                  THEN emplace_box(box_stack, NoBox)
                  ELSE emplace_box(box_stack,
                          GridBox(PosAdd(get_pos(get_current_box(box_stack)), info.pos),
                                  info.size, Len(info.col_sizes), Len(info.row_sizes),
                                  grid_cells(info)))
            /\ BeganOne
            /\ UNCHANGED scrollVars

BeginGridCell(col, row) ==
    /\ UNCHANGED <<inputVars, asked, pollVars, textVars, termVars>>
    /\ Drawing /\ Len(box_stack) < MaxDepth
    /\ IF box_stack = <<>> THEN Fatal
       ELSE /\ box_stack' =
                  IF get_current_box(box_stack).kind = "NoBox"
                  THEN emplace_box(box_stack, NoBox)
                  ELSE IF get_current_box(box_stack).kind = "GridBox"
                  THEN emplace_box(box_stack, get_grid_cell(get_current_box(box_stack), col, row))
                  ELSE emplace_box(box_stack, NoBox)
            /\ BeganOne
            /\ UNCHANGED scrollVars

\* BeginNoPane never reads the top: it pushes even onto an empty stack
BeginNoPane ==
    /\ UNCHANGED <<inputVars, asked, pollVars, textVars, termVars>>
    /\ Drawing /\ Len(box_stack) < MaxDepth
    /\ box_stack' = emplace_box(box_stack, NoBox)
    /\ BeganOne
    /\ UNCHANGED scrollVars

\* EndPane: the scrollbar of a ScrollBox is drawn, then one box is popped
EndPane ==
    /\ UNCHANGED <<inputVars, asked, pollVars, textVars, termVars>>
    /\ Drawing
    /\ IF box_stack = <<>> THEN Fatal
       ELSE /\ swapchain' = EndPaneDrawn(swapchain, get_current_box(box_stack))
            /\ box_stack' = pop_box(box_stack)
            /\ call_depth' = call_depth - 1
            /\ underflow' = (underflow \/ call_depth = 0)
            /\ UNCHANGED <<window_size, writes, cleared, phase, prev_buf, ndraws>>
            /\ UNCHANGED scrollVars

\* SetCell(state, value, position, style)
SetCell(value, position, style) ==
    /\ UNCHANGED <<inputVars, pollVars, textVars, termVars>>
    /\ asked' = {position}
    /\ Drawing /\ ndraws < MaxDraws
    /\ IF box_stack = <<>> THEN Fatal
       ELSE /\ swapchain' = state_set_cell(swapchain, get_current_box(box_stack),
                                           position.col, position.row, value, style)
            /\ ndraws' = ndraws + 1
            /\ UNCHANGED <<box_stack, window_size, writes, cleared, phase, prev_buf,
                           call_depth, underflow>>
            /\ UNCHANGED scrollVars

\* bookkeeping of a drawing call that passed the coordinates ps and left chain
Drawn(chain, ps) ==
    /\ swapchain' = chain
    /\ asked' = SeqRange(ps)
    /\ ndraws' = ndraws + 1
    /\ UNCHANGED <<box_stack, window_size, writes, cleared, phase, prev_buf,
                   call_depth, underflow>>
    /\ UNCHANGED scrollVars

\* a drawing call that goes through set_cell for every coordinate of ps
DrawSet(ps, value, style) ==
    /\ UNCHANGED <<inputVars, pollVars, textVars, termVars>>
    /\ Drawing /\ ndraws < MaxDraws
    /\ IF box_stack = <<>> THEN Fatal /\ UNCHANGED asked
       ELSE Drawn(set_cells(swapchain, get_current_box(box_stack), ps, value, style), ps)

\* a drawing call that assigns through get_cell for every coordinate of ps
DrawGet(ps, field, v) ==
    /\ UNCHANGED <<inputVars, pollVars, textVars, termVars>>
    /\ Drawing /\ ndraws < MaxDraws
    /\ IF box_stack = <<>> THEN Fatal /\ UNCHANGED asked
       ELSE Drawn(restyle_cells(swapchain, get_current_box(box_stack), ps, field, v), ps)

SetCellStyle(position, style) == DrawGet(<<position>>, "style", style)
SetCellBG(position, color) == DrawGet(<<position>>, "bg", color)
SetCellFG(position, color) == DrawGet(<<position>>, "fg", color)

FillCells(value, pos1, pos2, style) == DrawSet(CornerPoints(pos1, pos2), value, style)
FillCellsSized(value, pos, size, style) == DrawSet(SizedPoints(pos, size), value, style)

FillBackground(pos1, pos2, color) == DrawGet(CornerPoints(pos1, pos2), "bg", color)
FillBackgroundSized(pos, size, color) == DrawGet(SizedPoints(pos, size), "bg", color)
\* FillBackground(state, color) reads the current box before its loops
FillBackgroundAll(color) ==
    IF box_stack = <<>> THEN DrawGet(<<>>, "bg", color)
    ELSE DrawGet(BoxPoints(get_current_box(box_stack)), "bg", color)

FillForeground(pos1, pos2, color) == DrawGet(CornerPoints(pos1, pos2), "fg", color)
FillForegroundSized(pos, size, color) == DrawGet(SizedPoints(pos, size), "fg", color)
FillForegroundAll(color) ==
    IF box_stack = <<>> THEN DrawGet(<<>>, "fg", color)
    ELSE DrawGet(BoxPoints(get_current_box(box_stack)), "fg", color)

DrawLineCall(start, end, fill, style) == DrawSet(DrawLinePoints(start, end), fill, style)

(***************************************************************************)
(* Frames and the presenter (nite.cpp:641-706)                             *)
(***************************************************************************)
\* one console::set_cell(col, row, cell.value, cell.style) call
Write(buf, col, row) == [col |-> col, row |-> row, cell |-> buffer_at(buf, col, row)]

\* for row in 0..height-1, for col in 0..width-1: every cell, row-major
AllWrites(cur) ==
    [i \in 1 .. cur.width * cur.height |->
        Write(cur, (i - 1) % cur.width, (i - 1) \div cur.width)]

\* (mutant) only the glyphs are compared
CellDiffers_glyph_only(cell, prev_cell) == cell.value # prev_cell.value

\* if (cell != prev_cell)
CellDiffers(cell, prev_cell) == ~CellEq(cell, prev_cell)

\* the equal-size loop: only the cells that differ from the previous buffer
DiffWrites(prev, cur) ==
    SelectSeq(AllWrites(cur),
              LAMBDA w : CellDiffers(w.cell, buffer_at(prev, w.col, w.row)))

\* (mutant) the previous buffer is diffed but never popped
Present_keeps_prev(chain) ==
    IF Len(chain) < 2
    THEN [chain |-> chain, writes |-> IF chain = <<>> THEN <<>> ELSE AllWrites(chain[1]),
          cleared |-> FALSE, prev |-> NoBuffer]
    ELSE [chain |-> chain, writes |-> AllWrites(chain[2]), cleared |-> TRUE,
          prev |-> chain[1]]

\* the switch on get_swapchain_count() in EndDrawing
Present(chain) ==
    CASE Len(chain) = 0 ->
            [chain |-> chain, writes |-> <<>>, cleared |-> FALSE, prev |-> NoBuffer]
      [] Len(chain) = 1 ->
            [chain |-> chain, writes |-> AllWrites(chain[1]), cleared |-> FALSE,
             prev |-> NoBuffer]
      [] OTHER ->
            LET prev == Head(chain)
                rest == Tail(chain)
                cur == Head(rest)
            IN  IF buffer_size(cur) = buffer_size(prev)
                THEN [chain |-> rest, writes |-> DiffWrites(prev, cur),
                      cleared |-> FALSE, prev |-> prev]
                ELSE [chain |-> rest, writes |-> AllWrites(cur),
                      cleared |-> TRUE, prev |-> prev]

(***************************************************************************)
(* internal::console::set_cell, clear (nite.cpp:2251-2305, 3537-3540) and  *)
(* the terminal that reads what they print.  The output is a sequence of   *)
(* tokens: the cursor-position code CSI row+1;col+1 H, the graphic         *)
(* rendition codes CSI n m, the colour codes, and the bytes of the glyph.  *)
(***************************************************************************)
\* std::optional<Style> prev_style = std::nullopt
NoStyle == [bg |-> "nullopt", fg |-> "nullopt", mode |-> {}]

\* static size_t prev_col = 0, prev_row = 0; static optional<Style> prev_style
InitConsole == [prev_col |-> 0, prev_row |-> 0, prev_style |-> NoStyle]

\* the wide characters told apart by what wcrtomb makes of them: L'\0' (the
\* value of StyledChar{}) becomes the single byte 0, a lone surrogate cannot
\* be converted, any other glyph explored is one printable column
NulGlyph == "NUL"
Surrogate == "U+D800"

\* wc_to_str: the bytes wcrtomb wrote, "" when it returns (size_t)-1
wc_to_str(wc) ==
    CASE wc = Surrogate -> <<>>
      [] wc = NulGlyph -> <<[op |-> "BYTE", value |-> "00"]>>
      [] OTHER -> <<[op |-> "CHAR", value |-> wc]>>

\* CSI row+1 ; col+1 H
GotoCode(col, row) == [op |-> "CUP", row |-> row + 1, col |-> col + 1]

\* the attribute codes in the order set_cell appends them
ModeCodes == <<[flag |-> "RESET", code |-> 0], [flag |-> "BOLD", code |-> 1],
               [flag |-> "LIGHT", code |-> 2], [flag |-> "ITALIC", code |-> 3],
               [flag |-> "UNDERLINE", code |-> 4], [flag |-> "BLINK", code |-> 5],
               [flag |-> "INVERSE", code |-> 7], [flag |-> "INVISIBLE", code |-> 8],
               [flag |-> "CROSSED_OUT", code |-> 9], [flag |-> "UNDERLINE2", code |-> 21]>>

\* the codes appended when the style differs from prev_style
StyleCodes(style) ==
    [i \in 1 .. Len(SelectSeq(ModeCodes, LAMBDA m : m.flag \in style.mode)) |->
          [op |-> "SGR", code |-> SelectSeq(ModeCodes, LAMBDA m : m.flag \in style.mode)[i].code]]
    \o (IF "NO_FG" \in style.mode THEN <<>> ELSE <<[op |-> "FG", color |-> style.fg]>>)
    \o (IF "NO_BG" \in style.mode THEN <<>> ELSE <<[op |-> "BG", color |-> style.bg]>>)

\* if (prev_col + 1 == col && prev_row == row): no cursor-position code
SkipGoto(con, col, row) == WrapSize(con.prev_col + 1) = col /\ con.prev_row = row

\* console::set_cell: the statics afterwards and the string printed
console_set_cell(con, col, row, value, style) ==
    [con |-> [prev_col |-> col, prev_row |-> row,
              prev_style |-> IF con.prev_style = NoStyle \/ ~StyleEq(con.prev_style, style)
                             THEN style ELSE con.prev_style],
     out |-> (IF SkipGoto(con, col, row) THEN <<>> ELSE <<GotoCode(col, row)>>)
             \o (IF con.prev_style = NoStyle \/ ~StyleEq(con.prev_style, style)
                 THEN StyleCodes(style) ELSE <<>>)
             \o wc_to_str(value)]

\* ---- the terminal: a screen of cells, a cursor with its deferred wrap, and
\* ---- the rendition in force (the pen)
DefaultPen == [bg |-> "default", fg |-> "default", mode |-> {}]
BlankCell(pen) == [value |-> " ", bg |-> pen.bg, fg |-> "default", mode |-> {}]

\* the specifications that do not look at the screen leave it unobserved
Unobserved == [width |-> 0, height |-> 0, unobserved |-> TRUE]

BlankTerminal(size) ==
    [width |-> size.width, height |-> size.height, cursor |-> Pos(0, 0), wrap |-> FALSE,
     pen |-> DefaultPen,
     cells |-> [i \in 0 .. (size.width * size.height - 1) |-> BlankCell(DefaultPen)]]

\* the window is resized: the cells still on the screen stay, the new ones
\* are blank, the cursor stays on the screen
term_resize(T, size) ==
    IF T = Unobserved THEN T ELSE
    [T EXCEPT !.width = size.width, !.height = size.height, !.wrap = FALSE,
              !.cursor = Pos(MaxOf(0, MinOf(T.cursor.col, size.width - 1)),
                             MaxOf(0, MinOf(T.cursor.row, size.height - 1))),
              !.cells = [i \in 0 .. (size.width * size.height - 1) |->
                            IF (i % size.width) < T.width /\ (i \div size.width) < T.height
                            THEN T.cells[(i \div size.width) * T.width + (i % size.width)]
                            ELSE BlankCell(DefaultPen)]]

\* a line feed on the last line scrolls the screen up by one line
term_newline(T) ==
    IF T.cursor.row + 1 < T.height
    THEN [T EXCEPT !.cursor = Pos(0, T.cursor.row + 1), !.wrap = FALSE]
    ELSE [T EXCEPT !.cursor = Pos(0, T.cursor.row), !.wrap = FALSE,
                   !.cells = [i \in DOMAIN T.cells |->
                                 IF i + T.width \in DOMAIN T.cells THEN T.cells[i + T.width]
                                 ELSE BlankCell(T.pen)]]

\* a printable glyph: shown at the cursor with the pen, the cursor moves right
\* by one column, the wrap past the last column deferred to the next glyph
term_put(T, value) ==
    IF T.width = 0 \/ T.height = 0 THEN T
    ELSE LET U == IF T.wrap THEN term_newline(T) ELSE T
         IN  [U EXCEPT !.cells[U.cursor.row * U.width + U.cursor.col] =
                            [value |-> value, bg |-> U.pen.bg, fg |-> U.pen.fg,
                             mode |-> U.pen.mode],
                       !.cursor = IF U.cursor.col + 1 < U.width
                                  THEN Pos(U.cursor.col + 1, U.cursor.row) ELSE U.cursor,
                       !.wrap = ~(U.cursor.col + 1 < U.width)]

\* CSI n m
term_sgr(pen, code) ==
    CASE code = 0 -> DefaultPen
      [] code = 1 -> [pen EXCEPT !.mode = @ \cup {"BOLD"}]
      [] code = 2 -> [pen EXCEPT !.mode = @ \cup {"LIGHT"}]
      [] code = 3 -> [pen EXCEPT !.mode = @ \cup {"ITALIC"}]
      [] code = 4 -> [pen EXCEPT !.mode = @ \cup {"UNDERLINE"}]
      [] code = 5 -> [pen EXCEPT !.mode = @ \cup {"BLINK"}]
      [] code = 7 -> [pen EXCEPT !.mode = @ \cup {"INVERSE"}]
      [] code = 8 -> [pen EXCEPT !.mode = @ \cup {"INVISIBLE"}]
      [] code = 9 -> [pen EXCEPT !.mode = @ \cup {"CROSSED_OUT"}]
      [] code = 21 -> [pen EXCEPT !.mode = @ \cup {"UNDERLINE2"}]
      [] OTHER -> pen

\* one token read by the terminal
term_token(T, tok) ==
    CASE tok.op = "CUP" ->
            IF T.width = 0 \/ T.height = 0 THEN T
            ELSE [T EXCEPT !.cursor = Pos(MinOf(tok.col - 1, T.width - 1),
                                          MinOf(tok.row - 1, T.height - 1)),
                           !.wrap = FALSE]
      [] tok.op = "SGR" -> [T EXCEPT !.pen = term_sgr(T.pen, tok.code)]
      [] tok.op = "FG" -> [T EXCEPT !.pen.fg = tok.color]
      [] tok.op = "BG" -> [T EXCEPT !.pen.bg = tok.color]
      [] tok.op = "ED" -> [T EXCEPT !.cells = [i \in DOMAIN T.cells |-> BlankCell(T.pen)]]
      [] tok.op = "CHAR" -> term_put(T, tok.value)
      [] OTHER -> T     \* the byte 0 is ignored

RECURSIVE term_read(_, _)
term_read(T, out) ==
    IF out = <<>> \/ T = Unobserved THEN T ELSE term_read(term_token(T, Head(out)), Tail(out))

\* console::clear: CSI 2J
ClearCode == [op |-> "ED"]

\* the set_cell calls of one EndDrawing, in order, each printed at once
RECURSIVE console_present(_, _, _)
console_present(con, T, ws) ==
    IF ws = <<>> THEN [con |-> con, term |-> T]
    ELSE LET r == console_set_cell(con, Head(ws).col, Head(ws).row,
                                   Head(ws).cell.value, Head(ws).cell.style)
         IN  console_present(r.con, term_read(T, r.out), Tail(ws))

\* BeginDrawing: push_buffer(GetWindowSize())
BeginDrawing ==
    /\ UNCHANGED <<inputVars, pollVars, textVars, termVars>>
    /\ asked' = {}
    /\ phase = "idle"
    /\ swapchain' = push_buffer_chain(swapchain, window_size)
    /\ box_stack' = push_buffer_stack(window_size)
    /\ phase' = "drawing"
    /\ call_depth' = 0
    /\ underflow' = FALSE
    /\ ndraws' = 0
    /\ writes' = <<>>
    /\ cleared' = FALSE
    /\ prev_buf' = NoBuffer
    /\ UNCHANGED <<window_size, scroll_pivot, captured, scroll_info>>

\* EndDrawing: pop the top box, then present
EndDrawing ==
    /\ UNCHANGED inputVars
    /\ mouse_scroll_v' = 0
    /\ mouse_scroll_h' = 0
    /\ btn_states' = [b \in DOMAIN btn_states |-> BtnState]
    /\ UNCHANGED <<key_states, mouse_pos, textVars>>
    /\ asked' = {}
    /\ Drawing
    /\ IF box_stack = <<>> THEN Fatal /\ UNCHANGED termVars
       ELSE LET p == Present(swapchain)
                shown == console_present(console,
                                         IF p.cleared THEN term_read(terminal, <<ClearCode>>)
                                         ELSE terminal,
                                         p.writes)
            IN  /\ box_stack' = pop_box(box_stack)
                /\ swapchain' = p.chain
                /\ writes' = p.writes
                /\ cleared' = p.cleared
                /\ prev_buf' = p.prev
                /\ console' = shown.con
                /\ terminal' = shown.term
                /\ phase' = "idle"
                /\ UNCHANGED <<window_size, call_depth, underflow, ndraws,
                               scroll_pivot, captured, scroll_info>>

\* the terminal is resized: console::size reports another size from now on
ResizeWindow(size) ==
    /\ UNCHANGED <<inputVars, asked, pollVars, textVars, console>>
    /\ phase \in {"idle", "drawing"}
    /\ size # window_size
    /\ window_size' = size
    /\ terminal' = term_resize(terminal, size)
    /\ UNCHANGED <<swapchain, box_stack, writes, cleared, phase, prev_buf,
                   call_depth, underflow, ndraws, scroll_pivot, captured, scroll_info>>

\* Initialize: the alternate screen, cleared, the cursor at home
InitScreen == console = InitConsole /\ terminal = BlankTerminal(window_size)

\* the same start, the screen not looked at
InitTerminal == console = InitConsole /\ terminal = Unobserved

\* the state after construction: StateImpl's members, an untouched ScrollState
InitState ==
    /\ swapchain = <<>>
    /\ box_stack = <<>>
    /\ writes = <<>>
    /\ cleared = FALSE
    /\ phase = "idle"
    /\ prev_buf = NoBuffer
    /\ call_depth = 0
    /\ underflow = FALSE
    /\ ndraws = 0
    /\ scroll_pivot = Pos(0, 0)
    /\ captured = <<>>
    /\ tty = <<>>
    /\ arrivals = <<>>
    /\ now = StartTime
    /\ signals = 0
    /\ pc = "idle"
    /\ text = <<>>
    /\ index = 0
    /\ prev_mcl_tp = 0
    /\ events = <<>>
    /\ pending_events = <<>>
    /\ inflight = NoElement
    /\ delivered = <<>>
    /\ decoded = <<>>
    /\ resize_mark = -1
    /\ asked = {}
    /\ InitPollState

\* ScrollPaneInfo{}
DefaultScrollInfo == ScrollInfo(Pos(0, 0), Sz(0, 0), Sz(0, 0), 1, 1, TRUE, TRUE, TRUE)

InitFrame == InitState /\ scroll_info = DefaultScrollInfo /\ window_size \in WindowSizes /\ InitTerminal

\* frames drawn on the root pane while the terminal is resized at will
NextFrame ==
    \/ BeginDrawing
    \/ EndDrawing
    \/ \E v \in Glyphs, p \in DrawPositions, st \in Styles : SetCell(v, p, st)
    \/ \E size \in WindowSizes : ResizeWindow(size)

SpecFrame == InitFrame /\ [][NextFrame]_vars

\* frames of nested panes on a terminal of one size
InitPane == InitState /\ scroll_info = DefaultScrollInfo /\ window_size = PaneWindow /\ InitTerminal

NextPane ==
    \/ BeginDrawing
    \/ EndDrawing
    \/ \E r \in PaneRects : BeginPane(r.pos, r.size)
    \/ \E info \in FrameScrollInfos : BeginScrollPane(info)
    \/ \E info \in GridInfos : BeginGridPane(info)
    \/ \E c \in GridIndexes, r \in GridIndexes : BeginGridCell(c, r)
    \/ BeginNoPane
    \/ EndPane

SpecPane == InitPane /\ [][NextPane]_vars

\* one frame of panes and drawing calls; the application's ScrollState was
\* scrolled in earlier frames
ClipWindow == Sz(2, 2)
ClipPivots == {Pos(0, 0), Pos(1, 1)}
ClipScrollInfos == {ScrollInfo(Pos(1, 0), Sz(2, 2), Sz(4, 4), 1, 1, FALSE, FALSE, FALSE)}
ClipRects == {[pos |-> Pos(1, 0), size |-> Sz(2, 2)]}
ClipGridIndexes == {0, 2}
ClipPositions == {Pos(0, 0)}
ClipCorners == {<<Pos(2, 2), Pos(0, 0)>>}
ClipSizes == {Sz(1, 2)}
Red == "ff0000"

InitClip ==
    /\ swapchain = <<>> /\ box_stack = <<>> /\ writes = <<>> /\ cleared = FALSE
    /\ phase = "idle" /\ prev_buf = NoBuffer /\ call_depth = 0 /\ underflow = FALSE
    /\ ndraws = 0 /\ captured = <<>> /\ asked = {}
    /\ InitPollState
    /\ scroll_pivot \in ClipPivots
    /\ scroll_info \in ClipScrollInfos
    /\ window_size = ClipWindow
    /\ tty = <<>> /\ arrivals = <<>> /\ now = StartTime /\ signals = 0 /\ pc = "idle"
    /\ text = <<>> /\ index = 0 /\ prev_mcl_tp = 0 /\ events = <<>>
    /\ pending_events = <<>> /\ inflight = NoElement /\ delivered = <<>>
    /\ decoded = <<>> /\ resize_mark = -1
    /\ InitTerminal

NextClip ==
    \/ (swapchain = <<>> /\ BeginDrawing)
    \/ EndDrawing
    \/ \E r \in ClipRects : BeginPane(r.pos, r.size)
    \/ BeginScrollPane(scroll_info)
    \/ \E info \in GridInfos : BeginGridPane(info)
    \/ \E c \in ClipGridIndexes : BeginGridCell(c, 0)
    \/ BeginNoPane
    \/ EndPane
    \/ \E p \in ClipPositions : SetCell("a", p, RedBold)
    \/ \E p \in ClipPositions : SetCellStyle(p, RedBold)
    \/ \E p \in ClipPositions : SetCellBG(p, Red)
    \/ \E p \in ClipPositions : SetCellFG(p, Red)
    \/ \E c \in ClipCorners : FillCells("a", c[1], c[2], RedBold)
    \/ \E size \in ClipSizes : FillCellsSized("a", Pos(0, 0), size, RedBold)
    \/ \E c \in ClipCorners : FillBackground(c[1], c[2], Red)
    \/ \E size \in ClipSizes : FillBackgroundSized(Pos(0, 0), size, Red)
    \/ FillBackgroundAll(Red)
    \/ \E c \in ClipCorners : FillForeground(c[1], c[2], Red)
    \/ \E size \in ClipSizes : FillForegroundSized(Pos(0, 0), size, Red)
    \/ FillForegroundAll(Red)
    \/ \E c \in ClipCorners : DrawLineCall(c[2], c[1], "a", RedBold)

SpecClip == InitClip /\ [][NextClip]_vars

(***************************************************************************)
(* One scroll pane, its configuration fixed, fed with mouse events          *)
(***************************************************************************)
\* viewport 3x3 at the origin: the four scroll buttons, the home button, a
\* cell inside the viewport and one outside it
ScrollInfos ==
    {ScrollInfo(Pos(0, 0), Sz(3, 3), Sz(6, 5), 1, 1, TRUE, TRUE, TRUE),
     ScrollInfo(Pos(0, 0), Sz(3, 3), Sz(3, 6), 2, 1, TRUE, TRUE, TRUE),
     ScrollInfo(Pos(0, 0), Sz(3, 3), Sz(5, 2), 1, 2, TRUE, TRUE, TRUE),
     ScrollInfo(Pos(0, 0), Sz(3, 3), Sz(6, 6), 1, 1, FALSE, TRUE, TRUE)}
ScrollEvents ==
    {MouseEvent("CLICK", "LEFT", p, {}) : p \in {Pos(0, 2), Pos(1, 2), Pos(2, 0), Pos(2, 1), Pos(2, 2)}}
    \cup {MouseEvent(k, "NONE", Pos(0, 0), {}) :
            k \in {"SCROLL_UP", "SCROLL_DOWN", "SCROLL_LEFT", "SCROLL_RIGHT"}}
    \cup {MouseEvent("SCROLL_DOWN", "NONE", Pos(5, 5), {}), MouseEvent("CLICK", "RIGHT", Pos(2, 1), {})}

\* ScrollState::capture_event: the event is kept for the next BeginScrollPane
CaptureEvent(ev) ==
    /\ UNCHANGED <<inputVars, asked, pollVars, textVars, termVars>>
    /\ phase = "idle"
    /\ Len(captured) < MaxCaptured
    /\ captured' = Append(captured, ev)
    /\ UNCHANGED <<frameVars, scroll_pivot, scroll_info>>

InitScroll == InitState /\ window_size = PaneWindow /\ scroll_info \in ScrollInfos /\ InitTerminal

NextScroll ==
    \/ \E ev \in ScrollEvents :
            scroll_pivot.col <= MaxPivot /\ scroll_pivot.row <= MaxPivot /\ CaptureEvent(ev)
    \/ BeginDrawing
    \/ (call_depth = 0 /\ BeginScrollPane(scroll_info))
    \/ EndPane
    \/ EndDrawing

SpecScroll == InitScroll /\ [][NextScroll]_vars

\* C5: the pivot of the scroll pane is never above max_size - min_size - 1 on
\* either axis and never wraps around, after any frames and scroll inputs
\* (where the content does not exceed the viewport the pivot stays at 0).
PivotBound(maxs, mins) == IF maxs - mins - 1 > 0 THEN maxs - mins - 1 ELSE 0
C5_PivotWithinBound ==
    /\ scroll_pivot.col <= PivotBound(scroll_info.max_size.width, scroll_info.min_size.width)
    /\ scroll_pivot.row <= PivotBound(scroll_info.max_size.height, scroll_info.min_size.height)

(***************************************************************************)
(* Raw input decoder: class Parser (nite.cpp:3683-4306).  A byte is a      *)
(* one-character string; control bytes carry their names.                  *)
(***************************************************************************)
Digits == {"0", "1", "2", "3", "4", "5", "6", "7", "8", "9"}
DigitVal(c) ==
    CASE c = "0" -> 0 [] c = "1" -> 1 [] c = "2" -> 2 [] c = "3" -> 3 [] c = "4" -> 4
      [] c = "5" -> 5 [] c = "6" -> 6 [] c = "7" -> 7 [] c = "8" -> 8 [] c = "9" -> 9

\* #define PARSER_TERMINATOR '\n'
PARSER_TERMINATOR == "LF"

\* Parser::current / peek / advance, on a 0-based index
current(txt, i) == IF i = 0 \/ i - 1 >= Len(txt) THEN PARSER_TERMINATOR ELSE txt[i]
peek(txt, i, k) == IF i + k >= Len(txt) THEN PARSER_TERMINATOR ELSE txt[i + k + 1]
advance_index(txt, i) == IF i >= Len(txt) THEN i ELSE i + 1
advance_char(txt, i) == IF i >= Len(txt) THEN PARSER_TERMINATOR ELSE txt[i + 1]

\* match(c) / expect(c): [ok, index]
match(txt, i, c) ==
    IF peek(txt, i, 0) = c THEN [ok |-> TRUE, index |-> advance_index(txt, i)]
    ELSE [ok |-> FALSE, index |-> i]
match_any(txt, i, cs) ==
    IF peek(txt, i, 0) \in cs THEN [ok |-> TRUE, index |-> advance_index(txt, i)]
    ELSE [ok |-> FALSE, index |-> i]

\* match_number: at most 5 digits are consumed (while str.size() <= 4), then
\* from_chars into an Integer whose maximum is maxv; the digits stay consumed
\* when the value is out of range.  scan_digits: [n, v], the digits consumed
\* from index i on and their decimal value.
RECURSIVE scan_digits(_, _, _, _)
scan_digits(txt, i, n, v) ==
    IF n <= 4 /\ peek(txt, i + n, 0) \in Digits
    THEN scan_digits(txt, i, n + 1, 10 * v + DigitVal(peek(txt, i + n, 0)))
    ELSE [n |-> n, v |-> v]

from_chars(i, str, maxv) ==
    [ok |-> str.n > 0 /\ str.v <= maxv, index |-> i + str.n,
     val |-> IF str.n > 0 /\ str.v <= maxv THEN str.v ELSE 0]

match_number(txt, i, maxv) == from_chars(i, scan_digits(txt, i, 0, 0), maxv)

UINT8_MAX == 255
INT_MAX == 2147483647

Bit(v, k) == (v \div (2 ^ k)) % 2 = 1

\* get_key_code (nite.cpp:4344-4461): the key code of a character, for the
\* characters the model's inputs hold; every other byte is unsupported
KeyCodeTable ==
    [c \in {"ESC", " ", ";", ":", "<", "[", "~", "a", "A", "b", "B", "m", "M", "u",
            "O", "I", "P", "x"} \cup Digits |->
        CASE c = "ESC" -> "ESCAPE" [] c = " " -> "SPACE" [] c = ";" -> "SEMICOLON"
          [] c = ":" -> "COLON" [] c = "<" -> "LESS" [] c = "[" -> "LBRACKET"
          [] c = "~" -> "TILDE" [] c \in {"a", "A"} -> "K_A" [] c \in {"b", "B"} -> "K_B"
          [] c \in {"m", "M"} -> "K_M" [] c = "u" -> "K_U" [] c = "O" -> "K_O"
          [] c = "I" -> "K_I" [] c = "P" -> "K_P" [] c = "x" -> "K_X"
          [] c = "0" -> "K_0" [] c = "1" -> "K_1" [] c = "2" -> "K_2" [] c = "3" -> "K_3"
          [] c = "4" -> "K_4" [] c = "5" -> "K_5" [] c = "6" -> "K_6" [] c = "7" -> "K_7"
          [] c = "8" -> "K_8" [] c = "9" -> "K_9"]

get_key_code(c) ==
    IF c \in DOMAIN KeyCodeTable THEN [ok |-> TRUE, code |-> KeyCodeTable[c]]
    ELSE [ok |-> FALSE, code |-> "none"]

\* static_cast<char>(n): the byte with that value
CharOf(n) ==
    LET b == n % 256
    IN  CASE b = 27 -> "ESC" [] b = 32 -> " " [] b = 13 -> "CR" [] b = 9 -> "TAB"
          [] b = 127 -> "DEL" [] b = 1 -> "SOH" [] b = 59 -> ";" [] b = 65 -> "A"
          [] b = 66 -> "B" [] b = 97 -> "a" [] b = 98 -> "b" [] b = 120 -> "x"
          [] b = 48 -> "0" [] b = 49 -> "1" [] b = 50 -> "2" [] b = 51 -> "3"
          [] OTHER -> "BYTE"

KeyEvent(down, code, ch, mods) ==
    [type |-> "key", key_down |-> down, key_code |-> code, key_char |-> ch, modifiers |-> mods]
FocusEvent(gained) == [type |-> "focus", focus_gained |-> gained]
ResizeEvent(size) == [type |-> "resize", size |-> size]

Failed(i) == [ok |-> FALSE, index |-> i, event |-> "none"]
Parsed(i, ev) == [ok |-> TRUE, index |-> i, event |-> ev]

\* Parser::parse_mouse: CSI '<' NUMBER ';' NUMBER ';' NUMBER [Mm].  tp is the
\* clock when the function is entered, prev the member prev_mcl_tp.
DoubleClickMs == 500

mouse_modifiers(cb) ==
    (IF Bit(cb, 2) THEN {"SHIFT"} ELSE {}) \cup (IF Bit(cb, 3) THEN {"ALT"} ELSE {})
        \cup (IF Bit(cb, 4) THEN {"CTRL"} ELSE {})

\* the sequence of expect calls of parse_mouse, run from left to right until
\* one fails: st = [ok, index, nums], nums the numbers read so far
MouseGrammar ==
    <<[op |-> "expect", cs |-> {"ESC"}], [op |-> "expect", cs |-> {"["}],
      [op |-> "expect", cs |-> {"<"}], [op |-> "expect_number", max |-> UINT8_MAX],
      [op |-> "expect", cs |-> {";"}], [op |-> "expect_number", max |-> INT_MAX],
      [op |-> "expect", cs |-> {";"}], [op |-> "expect_number", max |-> INT_MAX],
      [op |-> "expect", cs |-> {"M", "m"}]>>

expected(st, m) == [ok |-> m.ok, index |-> m.index, nums |-> st.nums]
expected_number(st, m) == [ok |-> m.ok, index |-> m.index, nums |-> Append(st.nums, m.val)]

expect_step(txt, st, step) ==
    IF step.op = "expect" THEN expected(st, match_any(txt, st.index, step.cs))
    ELSE expected_number(st, match_number(txt, st.index, step.max))

RECURSIVE expect_all(_, _, _)
expect_all(txt, st, steps) ==
    IF steps = <<>> \/ ~st.ok THEN st
    ELSE expect_all(txt, expect_step(txt, st, Head(steps)), Tail(steps))

\* what a released click leaves in prev_mcl_tp: the default-constructed time
\* point (the epoch) after a double-click, the time of the click otherwise
next_mcl_tp_keeps(double, tp) == tp

next_mcl_tp(double, tp) == IF double THEN 0 ELSE tp

\* the rest of parse_mouse, st being what the expect calls left
mouse_event(txt, i, tp, prev, st) ==
    LET fail == [ok |-> FALSE, index |-> i, event |-> "none", prev |-> prev]
        control_byte == st.nums[1]
        x_coord == st.nums[2]
        y_coord == st.nums[3]
        button_number == (control_byte % 4) + 4 * ((control_byte \div 64) % 4)
        dragging == Bit(control_byte, 5)
        kind0 ==
            CASE button_number \in {0, 1, 2} -> IF dragging THEN "MOVED" ELSE "CLICK"
              [] button_number = 3 -> "MOVED"
              [] button_number = 4 -> IF dragging THEN "MOVED" ELSE "SCROLL_UP"
              [] button_number = 5 -> IF dragging THEN "MOVED" ELSE "SCROLL_DOWN"
              [] button_number = 6 -> "SCROLL_LEFT"
              [] button_number = 7 -> "SCROLL_RIGHT"
              [] OTHER -> "none"
        button0 ==
            IF dragging THEN "NONE"
            ELSE CASE button_number = 0 -> "LEFT" [] button_number = 1 -> "MIDDLE"
                   [] button_number = 2 -> "RIGHT" [] OTHER -> "NONE"
        pressed == current(txt, st.index) = "M"
        double == tp - prev <= DoubleClickMs
        kind == IF kind0 # "CLICK" THEN kind0
                ELSE IF pressed THEN "MOVED"
                ELSE IF double THEN "DOUBLE_CLICK" ELSE "CLICK"
        button == IF kind0 = "CLICK" /\ pressed THEN "NONE" ELSE button0
        prev2 == IF kind0 = "CLICK" /\ ~pressed THEN next_mcl_tp(double, tp) ELSE prev
        pos == Pos(WrapSize(x_coord - 1), WrapSize(y_coord - 1))
    IN  IF ~st.ok THEN fail
        ELSE IF button_number > 7 \/ (button_number \in {6, 7} /\ dragging) THEN fail
        ELSE [ok |-> TRUE, index |-> st.index, prev |-> prev2,
              event |-> MouseEvent(kind, button, pos, mouse_modifiers(control_byte))]

parse_mouse(txt, i, tp, prev) ==
    mouse_event(txt, i, tp, prev,
                expect_all(txt, [ok |-> TRUE, index |-> i, nums |-> <<>>], MouseGrammar))

\* the switch on key_val_unsh under functional '~' (nite.cpp:3900-3992)
TildeKeys ==
    [n \in {2, 3, 5, 6, 7, 8, 11, 12, 13, 14, 15, 17, 18, 19, 20, 21, 23, 24, 25, 26,
            28, 29, 31, 32, 33, 34} |->
        CASE n = 2 -> "INSERT" [] n = 3 -> "DELETE" [] n = 5 -> "PAGE_UP"
          [] n = 6 -> "PAGE_DOWN" [] n = 7 -> "HOME" [] n = 8 -> "END"
          [] n = 11 -> "F1" [] n = 12 -> "F2" [] n = 13 -> "F3" [] n = 14 -> "F4"
          [] n = 15 -> "F5" [] n = 17 -> "F6" [] n = 18 -> "F7" [] n = 19 -> "F8"
          [] n = 20 -> "F9" [] n = 21 -> "F10" [] n = 23 -> "F11" [] n = 24 -> "F12"
          [] n = 25 -> "F13" [] n = 26 -> "F14" [] n = 28 -> "F15" [] n = 29 -> "F16"
          [] n = 31 -> "F17" [] n = 32 -> "F18" [] n = 33 -> "F19" [] n = 34 -> "F20"]

\* the switch on key_val_unsh under functional 'u' (nite.cpp:3993-4079)
UKeys ==
    [n \in {9, 13, 27, 127} \cup (57376..57387) \cup (57417..57426) |->
        CASE n = 9 -> "TAB" [] n = 13 -> "ENTER" [] n = 27 -> "ESCAPE" [] n = 127 -> "BACKSPACE"
          [] n = 57376 -> "F13" [] n = 57377 -> "F14" [] n = 57378 -> "F15"
          [] n = 57379 -> "F16" [] n = 57380 -> "F17" [] n = 57381 -> "F18"
          [] n = 57382 -> "F19" [] n = 57383 -> "F20" [] n = 57384 -> "F21"
          [] n = 57385 -> "F22" [] n = 57386 -> "F23" [] n = 57387 -> "F24"
          [] n = 57417 -> "LEFT" [] n = 57418 -> "RIGHT" [] n = 57419 -> "UP"
          [] n = 57420 -> "DOWN" [] n = 57421 -> "PAGE_UP" [] n = 57422 -> "PAGE_DOWN"
          [] n = 57423 -> "HOME" [] n = 57424 -> "END" [] n = 57425 -> "INSERT"
          [] n = 57426 -> "DELETE"]

\* the switch on functional when key_val_unsh == 1 (nite.cpp:3868-3899)
FunctionalKeys ==
    [c \in {"A", "B", "C", "D", "F", "H", "P", "Q", "S"} |->
        CASE c = "A" -> "UP" [] c = "B" -> "DOWN" [] c = "C" -> "RIGHT" [] c = "D" -> "LEFT"
          [] c = "F" -> "END" [] c = "H" -> "HOME" [] c = "P" -> "F1" [] c = "Q" -> "F2"
          [] c = "S" -> "F4"]

key_modifiers(val) ==
    (IF Bit(val, 0) THEN {"SHIFT"} ELSE {}) \cup (IF Bit(val, 1) THEN {"ALT"} ELSE {})
        \cup (IF Bit(val, 2) THEN {"CTRL"} ELSE {}) \cup (IF Bit(val, 3) THEN {"SUPER"} ELSE {})
        \cup (IF Bit(val, 5) THEN {"META"} ELSE {})

saturated_sub(a, b) == IF a < b THEN 0 ELSE a - b

\* Parser::parse_key_and_focus.  `KeyEvent kev;` of the CSI branch is default
\* initialised: key_down is never assigned and key_char only on some paths, so
\* the event carries indeterminate values there; ind = [down, ch] is what the
\* memory happens to hold.
Functionals == {"A", "B", "C", "D", "E", "F", "H", "P", "Q", "S", "u", "~"}

\* the part of the CSI branch that reads the sequence, statement by statement:
\* NUMBER (':' NUMBER? (':' NUMBER?)?)? (';' NUMBER?)? functional.
\* st = [ok, index, key_val_unsh, key_val_sh, key_modifiers], -1 an empty optional
csi_number(st, m) == [st EXCEPT !.ok = m.ok, !.index = m.index, !.key_val_unsh = m.val]
csi_shifted(st, m) == [st EXCEPT !.index = m.index, !.key_val_sh = IF m.ok THEN m.val ELSE -1]
csi_modifiers(st, m) ==
    [st EXCEPT !.index = m.index,
               !.key_modifiers = IF m.ok THEN saturated_sub(m.val, 1) ELSE -1]
csi_skipped(st, m) == [st EXCEPT !.index = m.index]
csi_functional(st, m) == [st EXCEPT !.ok = m.ok, !.index = m.index]

RECURSIVE csi_key_scan(_, _, _)
csi_key_scan(txt, st, stage) ==
    CASE ~st.ok -> st
      [] st.ok /\ stage = "key_val_unsh" ->
            csi_key_scan(txt, csi_number(st, match_number(txt, st.index, INT_MAX)), "colon")
      [] st.ok /\ stage = "colon" ->
            csi_key_scan(txt, csi_skipped(st, match(txt, st.index, ":")),
                         IF peek(txt, st.index, 0) = ":" THEN "key_val_sh" ELSE "semicolon")
      [] st.ok /\ stage = "key_val_sh" ->
            csi_key_scan(txt, csi_shifted(st, match_number(txt, st.index, UINT8_MAX)), "colon2")
      [] st.ok /\ stage = "colon2" ->
            csi_key_scan(txt, csi_skipped(st, match(txt, st.index, ":")),
                         IF peek(txt, st.index, 0) = ":" THEN "base_layout" ELSE "semicolon")
      [] st.ok /\ stage = "base_layout" ->
            csi_key_scan(txt, csi_skipped(st, match_number(txt, st.index, INT_MAX)), "semicolon")
      [] st.ok /\ stage = "semicolon" ->
            csi_key_scan(txt, csi_skipped(st, match(txt, st.index, ";")),
                         IF peek(txt, st.index, 0) = ";" THEN "key_modifiers" ELSE "functional")
      [] st.ok /\ stage = "key_modifiers" ->
            csi_key_scan(txt, csi_modifiers(st, match_number(txt, st.index, UINT8_MAX)),
                         "functional")
      [] st.ok /\ stage = "functional" ->
            csi_functional(st, match_any(txt, st.index, Functionals))

\* the rest of the CSI branch: the KeyEvent built from what was read
csi_key_event(txt, i, ind, st) ==
    LET fail == Failed(i)
        functional == current(txt, st.index)
        key_val_unsh == st.key_val_unsh
        mods == IF st.key_modifiers >= 0 THEN key_modifiers(st.key_modifiers) ELSE {}
        by_char(ch) ==
            IF get_key_code(ch).ok
            THEN Parsed(st.index, KeyEvent(ind.down, get_key_code(ch).code, ch, mods))
            ELSE fail
        named(code) == Parsed(st.index, KeyEvent(ind.down, code, ind.ch, mods))
    IN  IF ~st.ok THEN fail
        ELSE IF st.key_val_sh >= 0 THEN by_char(CharOf(st.key_val_sh))
        ELSE IF key_val_unsh = 1
             THEN IF functional \in DOMAIN FunctionalKeys THEN named(FunctionalKeys[functional])
                  ELSE fail
        ELSE IF functional = "~"
             THEN IF key_val_unsh \in DOMAIN TildeKeys THEN named(TildeKeys[key_val_unsh])
                  ELSE fail
        ELSE IF functional = "u" /\ key_val_unsh \in DOMAIN UKeys THEN named(UKeys[key_val_unsh])
        ELSE by_char(CharOf(key_val_unsh))

parse_csi_key(txt, i, ind) ==
    csi_key_event(txt, i, ind,
                  csi_key_scan(txt, [ok |-> TRUE, index |-> i, key_val_unsh |-> 0,
                                     key_val_sh |-> -1, key_modifiers |-> -1], "key_val_unsh"))

parse_key_and_focus(txt, i, ind) ==
    LET c == advance_char(txt, i)
        j == advance_index(txt, i)
    IN  CASE c = "CR" -> Parsed(j, KeyEvent(TRUE, "ENTER", current(txt, j), {}))
          [] c \in {"DEL", "BS"} -> Parsed(j, KeyEvent(TRUE, "BACKSPACE", current(txt, j), {}))
          [] c = "TAB" -> Parsed(j, KeyEvent(TRUE, "TAB", current(txt, j), {}))
          [] c = "ESC" ->
                IF ~match(txt, j, "[").ok THEN Failed(i)
                ELSE IF match(txt, j + 1, "O").ok THEN Parsed(j + 2, FocusEvent(FALSE))
                ELSE IF match(txt, j + 1, "I").ok THEN Parsed(j + 2, FocusEvent(TRUE))
                ELSE parse_csi_key(txt, j + 1, ind)
          [] OTHER ->
                IF get_key_code(current(txt, j)).ok
                THEN Parsed(j, KeyEvent(TRUE, get_key_code(current(txt, j)).code, current(txt, j), {}))
                ELSE Failed(i)

\* Parser::parse_key_legacy: CSI [ABCDHF] | ESC 'O' [PQRS].  On failure the
\* index stays where the function stopped.
LegacyO == [c \in {"P", "Q", "R", "S"} |->
              CASE c = "P" -> "F1" [] c = "Q" -> "F2" [] c = "R" -> "F3" [] c = "S" -> "F4"]
LegacyCSI == [c \in {"A", "B", "C", "D", "H", "F"} |->
                CASE c = "A" -> "UP" [] c = "B" -> "DOWN" [] c = "C" -> "RIGHT"
                  [] c = "D" -> "LEFT" [] c = "H" -> "HOME" [] c = "F" -> "END"]

parse_key_legacy(txt, i) ==
    LET esc == match(txt, i, "ESC")
        o == match(txt, esc.index, "O")
        br == match(txt, esc.index, "[")
        c == advance_char(txt, esc.index + 1)
        j == advance_index(txt, esc.index + 1)
        table == IF o.ok THEN LegacyO ELSE LegacyCSI
    IN  IF ~esc.ok THEN Failed(i)
        ELSE IF ~o.ok /\ ~br.ok THEN Failed(esc.index)
        ELSE IF c \in DOMAIN table THEN Parsed(j, KeyEvent(TRUE, table[c], "NUL", {}))
        ELSE Failed(j)

\* Parser::parse: one attempt; [ok, index, event, prev].  m, k and l are what
\* the three grammars return when tried at index i.
first_accepted(txt, i, prev, m, k, l) ==
    IF txt = <<"ESC">>
    THEN [ok |-> TRUE, index |-> advance_index(txt, i), prev |-> prev,
          event |-> KeyEvent(TRUE, "ESCAPE", "ESC", {})]
    ELSE IF m.ok THEN m
    ELSE IF k.ok THEN [ok |-> TRUE, index |-> k.index, event |-> k.event, prev |-> prev]
    ELSE [ok |-> l.ok, index |-> l.index, event |-> l.event, prev |-> prev]

parse(txt, i, tp, prev, ind) ==
    first_accepted(txt, i, prev, parse_mouse(txt, i, tp, prev),
                   parse_key_and_focus(txt, i, ind), parse_key_legacy(txt, i))

(***************************************************************************)
(* PollRawEvent (nite.cpp:4308-4342), con_read (nite.cpp:3639-3669) and the *)
(* SIGWINCH handler, one action per step the handler can interrupt         *)
(***************************************************************************)
\* what an uninitialised KeyEvent may hold in key_down and key_char
Indeterminate == [down : BOOLEAN, ch : {"NUL", "a"}]

\* what a slot of the queue holds when no element was constructed in it
GarbageEvent == [type |-> "indeterminate"]

RECURSIVE Flatten(_)
Flatten(chunks) == IF chunks = <<>> THEN <<>> ELSE Head(chunks).bytes \o Flatten(Tail(chunks))

otherVars == <<swapchain, box_stack, writes, cleared, phase, prev_buf, call_depth,
               underflow, ndraws, scroll_pivot, captured, scroll_info, asked, pollVars, textVars, console>>

\* the terminal sends a report: its bytes wait in the tty until they are read
Arrive(bytes) ==
    /\ Len(arrivals) < MaxArrivals
    /\ tty' = Append(tty, [bytes |-> bytes, at |-> now])
    /\ arrivals' = Append(arrivals, [bytes |-> bytes, at |-> now])
    /\ UNCHANGED <<now, signals, pc, text, index, prev_mcl_tp, events, pending_events,
                   inflight, delivered, decoded, window_size, otherVars, terminal, resize_mark>>

\* time passes
Tick ==
    /\ pc \in {"idle", "parse"}
    /\ now < MaxTime
    /\ now' = now + TickMs
    /\ UNCHANGED <<tty, arrivals, signals, pc, text, index, prev_mcl_tp, events,
                   pending_events, inflight, delivered, decoded, window_size, otherVars, terminal, resize_mark>>

\* PollRawEvent is entered: con_read takes all available input; a non-empty
\* text gets a new Parser, whose prev_mcl_tp starts at the clock's epoch
con_read ==
    /\ pc = "idle"
    /\ tty' = <<>>
    /\ IF Flatten(tty) # <<>>
       THEN /\ text' = Flatten(tty)
            /\ pc' = "parse"
       ELSE /\ text' = <<>>
            /\ pc' = "deliver"
    /\ index' = 0
    /\ prev_mcl_tp' = 0
    /\ events' = <<>>
    /\ UNCHANGED <<arrivals, now, signals, pending_events, inflight, delivered, decoded,
                   window_size, otherVars, terminal, resize_mark>>

\* what one iteration of the loop does with the result r of parse
ParseOutcome(r) ==
    /\ index' = r.index
    /\ prev_mcl_tp' = r.prev
    /\ events' = IF r.ok THEN Append(events, r.event) ELSE events
    /\ decoded' = IF ~r.ok THEN decoded
                  ELSE IF r.event.type = "key"
                       THEN decoded \o <<r.event, [r.event EXCEPT !.key_down = FALSE]>>
                       ELSE Append(decoded, r.event)

\* one iteration of the loop of Parser::parse_events
ParseStep ==
    /\ pc = "parse"
    /\ index < Len(text)
    /\ \E ind \in Indeterminate : ParseOutcome(parse(text, index, now, prev_mcl_tp, ind))
    /\ UNCHANGED <<tty, arrivals, now, signals, pc, text, pending_events, inflight,
                   delivered, window_size, otherVars, terminal, resize_mark>>

\* parse_events returns
ParseDone ==
    /\ pc = "parse"
    /\ index >= Len(text)
    /\ pc' = "drain"
    /\ UNCHANGED <<tty, arrivals, now, signals, text, index, prev_mcl_tp, events,
                   pending_events, inflight, delivered, decoded, window_size, otherVars, terminal, resize_mark>>

\* while (!events.empty()): pending_events.push(ev) constructs the element in
\* the slot after the last one
DrainNext ==
    /\ pc = "drain"
    /\ IF events = <<>>
       THEN /\ pc' = "deliver"
            /\ inflight' = inflight
            /\ text' = <<>>
            /\ index' = 0
            /\ prev_mcl_tp' = 0
       ELSE /\ pc' = "push_ev"
            /\ inflight' = Head(events)
            /\ UNCHANGED <<text, index, prev_mcl_tp>>
    /\ UNCHANGED <<tty, arrivals, now, signals, events, pending_events, delivered,
                   decoded, window_size, otherVars, terminal, resize_mark>>

\* a push of PollRawEvent publishes its element.  When the handler pushed in
\* between, it constructed its element in the same slot: the interrupted push
\* either stores the end it computed before (the element is gone) or advances
\* the end once more (a slot nothing was constructed in follows).
Published(queue, elem) ==
    IF elem = Clobbered THEN {queue, Append(queue, GarbageEvent)} ELSE {Append(queue, elem)}

\* The handler may also have run before the element was constructed: the
\* element is then constructed over the handler's and the end stored is the
\* one computed before the handler ran, so the handler's element is gone.
Overwriting(queue, elem, constructed) ==
    IF elem = Clobbered THEN {Append(SubSeq(queue, 1, Len(queue) - 1), constructed)} ELSE {}

\* pending_events.push(ev) returns
PushEvent ==
    /\ pc = "push_ev"
    /\ pending_events' \in Published(pending_events, inflight)
                              \cup Overwriting(pending_events, inflight, Head(events))
    /\ inflight' = NoElement
    /\ IF Head(events).type = "key"
       THEN pc' = "release" /\ events' = events
       ELSE pc' = "drain" /\ events' = Tail(events)
    /\ UNCHANGED <<tty, arrivals, now, signals, text, index, prev_mcl_tp, delivered,
                   decoded, window_size, otherVars, terminal, resize_mark>>

\* kev_release = *kev with key_down = false; pending_events.push(kev_release)
BeginRelease ==
    /\ pc = "release"
    /\ inflight' = [Head(events) EXCEPT !.key_down = FALSE]
    /\ pc' = "push_release"
    /\ UNCHANGED <<tty, arrivals, now, signals, text, index, prev_mcl_tp, events,
                   pending_events, delivered, decoded, window_size, otherVars, terminal, resize_mark>>

\* pending_events.push(kev_release) returns; events.pop()
PushRelease ==
    /\ pc = "push_release"
    /\ pending_events' \in Published(pending_events, inflight)
                              \cup Overwriting(pending_events, inflight,
                                               [Head(events) EXCEPT !.key_down = FALSE])
    /\ inflight' = NoElement
    /\ events' = Tail(events)
    /\ pc' = "drain"
    /\ UNCHANGED <<tty, arrivals, now, signals, text, index, prev_mcl_tp, delivered,
                   decoded, window_size, otherVars, terminal, resize_mark>>

\* the tail of PollRawEvent: the front of pending_events is returned
Deliver ==
    /\ pc = "deliver"
    /\ IF pending_events # <<>>
       THEN /\ delivered' = Append(delivered, Head(pending_events))
            /\ pending_events' = Tail(pending_events)
       ELSE UNCHANGED <<delivered, pending_events>>
    /\ pc' = "idle"
    /\ UNCHANGED <<tty, arrivals, now, signals, text, index, prev_mcl_tp, events,
                   inflight, decoded, window_size, otherVars, terminal, resize_mark>>

\* the terminal is resized and the SIGWINCH handler runs, wherever PollRawEvent
\* stands: pending_events.push(ResizeEvent{GetWindowSize()})
SigWinch(size) ==
    /\ signals < MaxSignals
    /\ size # window_size
    /\ signals' = signals + 1
    /\ resize_mark' = Len(decoded)
    /\ window_size' = size
    /\ terminal' = term_resize(terminal, size)
    /\ pending_events' = Append(pending_events, ResizeEvent(size))
    /\ inflight' = IF inflight = NoElement THEN NoElement ELSE Clobbered
    /\ UNCHANGED <<tty, arrivals, now, pc, text, index, prev_mcl_tp, events, delivered,
                   decoded, otherVars>>

\* Parser::parse_events as a function of the text: [events, diverges].  An
\* attempt that fails and leaves the index where it was is repeated for ever.
RECURSIVE parse_events(_, _, _, _, _, _)
events_after(txt, tp, ind, acc, i, r) ==
    IF ~r.ok /\ r.index = i THEN [events |-> acc, diverges |-> TRUE]
    ELSE parse_events(txt, r.index, tp, r.prev, ind, IF r.ok THEN Append(acc, r.event) ELSE acc)

parse_events(txt, i, tp, prev, ind, acc) ==
    IF i >= Len(txt) THEN [events |-> acc, diverges |-> FALSE]
    ELSE events_after(txt, tp, ind, acc, i, parse(txt, i, tp, prev, ind))

(***************************************************************************)
(* Inputs of the decoder                                                   *)
(***************************************************************************)
\* "\033[<0;1;1m" and "\033[<0;1;1M": the left button released / pressed at
\* the top-left cell
LeftRelease == <<"ESC", "[", "<", "0", ";", "1", ";", "1", "m">>
LeftPress == <<"ESC", "[", "<", "0", ";", "1", ";", "1", "M">>
\* "\033[<2;1;1m": the right button released; "\033[<64;1;1M": wheel up
RightRelease == <<"ESC", "[", "<", "2", ";", "1", ";", "1", "m">>
WheelUp == <<"ESC", "[", "<", "6", "4", ";", "1", ";", "1", "M">>
\* "\033[97u": the key a, "\033[97;5u": ctrl+a, "\033[3~": delete,
\* "\033[1;2A": shift+up (the progressive enhancement encoding)
CsiKeyA == <<"ESC", "[", "9", "7", "u">>
CsiCtrlA == <<"ESC", "[", "9", "7", ";", "5", "u">>
CsiDelete == <<"ESC", "[", "3", "~">>
CsiShiftUp == <<"ESC", "[", "1", ";", "2", "A">>
\* "\033[I": focus gained; "\033[A": up, "\033OP": F1 (legacy encodings)
FocusIn == <<"ESC", "[", "I">>
LegacyUp == <<"ESC", "[", "A">>
LegacyF1 == <<"ESC", "O", "P">>
\* plain bytes: the key a, enter, a lone escape
PlainA == <<"a">>
PlainEnter == <<"CR">>
LoneEsc == <<"ESC">>
\* a byte get_key_code rejects: ctrl+a as a legacy terminal sends it
CtrlAByte == <<"SOH">>
\* escape sequences no grammar accepts: a mouse report without its row, a
\* mouse report whose button number is 12, a CSI cut short, an unknown final
MouseNoRow == <<"ESC", "[", "<", "0", ";", "1", "M">>
MouseButton12 == <<"ESC", "[", "<", "2", "0", "0", ";", "1", ";", "1", "M">>
CsiCutShort == <<"ESC", "[">>
CsiUnknownFinal == <<"ESC", "[", "1", "x">>

WellFormedSeqs ==
    {LeftRelease, LeftPress, RightRelease, WheelUp, CsiKeyA, CsiCtrlA, CsiDelete,
     CsiShiftUp, FocusIn, LegacyUp, LegacyF1, PlainA, PlainEnter}
MalformedSeqs == {MouseNoRow, MouseButton12, CsiCutShort, CsiUnknownFinal}
ParseChunks == WellFormedSeqs \cup MalformedSeqs \cup {LoneEsc, CtrlAByte}

\* the texts of at most n sequences
RECURSIVE TextsOf(_)
TextsOf(n) ==
    IF n = 0 THEN {<<>>}
    ELSE TextsOf(n - 1) \cup {t \o c : t \in TextsOf(n - 1), c \in ParseChunks}
ParseTexts == TextsOf(MaxChunks) \ {<<>>}

\* the reports the terminal sends in the specification of PollRawEvent
InputChunks == {LeftRelease, CsiKeyA, PlainA, LegacyUp}
InputWindow == Sz(2, 1)

(***************************************************************************)
(* SpecParse: one Parser over one text.  SpecInput: PollRawEvent called    *)
(* again and again while reports arrive and the terminal is resized.       *)
(***************************************************************************)
InitInput == InitState /\ scroll_info = DefaultScrollInfo /\ window_size = InputWindow /\ InitTerminal

NextInput ==
    \/ \E bytes \in InputChunks : Arrive(bytes)
    \/ Tick
    \/ con_read
    \/ ParseStep
    \/ ParseDone
    \/ DrainNext
    \/ PushEvent
    \/ BeginRelease
    \/ PushRelease
    \/ Deliver
    \/ \E size \in WindowSizes : SigWinch(size)

SpecInput == InitInput /\ [][NextInput]_vars

\* the state con_read and the Parser's constructor leave: the text read, the
\* index at 0, no click remembered
InitParse ==
    /\ swapchain = <<>> /\ box_stack = <<>> /\ writes = <<>> /\ cleared = FALSE
    /\ phase = "idle" /\ prev_buf = NoBuffer /\ call_depth = 0 /\ underflow = FALSE
    /\ ndraws = 0 /\ scroll_pivot = Pos(0, 0) /\ captured = <<>> /\ asked = {}
    /\ InitPollState
    /\ scroll_info = DefaultScrollInfo /\ window_size = InputWindow
    /\ text \in ParseTexts
    /\ tty = <<>>
    /\ arrivals = <<[bytes |-> text, at |-> StartTime]>>
    /\ now = StartTime
    /\ signals = 0
    /\ pc = "parse"
    /\ index = 0
    /\ prev_mcl_tp = 0
    /\ events = <<>>
    /\ pending_events = <<>>
    /\ inflight = NoElement
    /\ delivered = <<>>
    /\ decoded = <<>>
    /\ resize_mark = -1
    /\ InitTerminal

NextParse ==
    \/ Tick
    \/ ParseStep
    \/ ParseDone

SpecParse == InitParse /\ [][NextParse]_vars

(***************************************************************************)
(* Properties of the pane stack and of the presenter                       *)
(***************************************************************************)
\* C2: inside a frame, as long as no prefix of the Begin*/EndPane calls held
\* more EndPane than Begin*, the pane stack depth is the depth BeginDrawing
\* left (1) plus the Begin* calls minus the EndPane calls: every Begin*
\* variant pushed exactly one box, every EndPane popped exactly one.
C2_DepthFollowsCalls ==
    (phase = "drawing" /\ ~underflow) => Len(box_stack) = 1 + call_depth

\* a grid cell opened inside a grid pane: two unmatched Begin*, depth 3
C2_Witness ==
    /\ phase = "drawing" /\ ~underflow /\ call_depth = 2
    /\ Len(box_stack) = 3
    /\ box_stack[2].kind = "GridBox"
    /\ box_stack[3].kind \in {"StaticBox", "NoBox"}

CellsOf(buf) == {Pos(c, r) : c \in 0 .. buf.width - 1, r \in 0 .. buf.height - 1}
Written == {Pos(writes[i].col, writes[i].row) : i \in 1 .. Len(writes)}

\* C4: after EndDrawing, every write carries the current buffer's cell and no
\* cell is written twice; with a single buffer every cell was written; with
\* two buffers of equal size exactly the cells whose glyph or style differ
\* were written (none for identical buffers); with two buffers of different
\* size the terminal was cleared and every cell was written.
C4_PresentCases ==
    (phase = "idle" /\ swapchain # <<>>) =>
        LET cur == swapchain[1]
        IN  /\ Cardinality(Written) = Len(writes)
            /\ \A i \in 1 .. Len(writes) :
                   writes[i].cell = buffer_at(cur, writes[i].col, writes[i].row)
            /\ IF prev_buf = NoBuffer
               THEN Written = CellsOf(cur) /\ ~cleared
               ELSE IF prev_buf.width = cur.width /\ prev_buf.height = cur.height
               THEN /\ ~cleared
                    /\ Written =
                          {p \in CellsOf(cur) :
                              \/ buffer_at(cur, p.col, p.row).value
                                    # buffer_at(prev_buf, p.col, p.row).value
                              \/ buffer_at(cur, p.col, p.row).style
                                    # buffer_at(prev_buf, p.col, p.row).style}
               ELSE cleared /\ Written = CellsOf(cur)

\* two frames of equal size that differ in the style of exactly one cell
C4_Witness ==
    /\ phase = "idle" /\ Len(swapchain) = 1 /\ prev_buf # NoBuffer
    /\ prev_buf.width = swapchain[1].width /\ prev_buf.height = swapchain[1].height
    /\ Len(writes) = 1
    /\ writes[1].cell.value = buffer_at(prev_buf, writes[1].col, writes[1].row).value
    /\ writes[1].cell.style # buffer_at(prev_buf, writes[1].col, writes[1].row).style

\* C10 (as claimed): between frames, after a frame whose Begin*/EndPane calls
\* were balanced, the pane stack depth is exactly 1.
C10_DepthOneBetweenFrames ==
    (phase = "idle" /\ swapchain # <<>> /\ call_depth = 0 /\ ~underflow)
        => Len(box_stack) = 1

\* C10 (amended): between frames the pane stack is empty (depth 0) when the
\* frame's Begin*/EndPane calls were balanced: EndDrawing pops the root box
\* that BeginDrawing pushed; the depth is 1 only inside the frame.
C10_DepthZeroBetweenFrames ==
    /\ (phase = "idle" /\ call_depth = 0 /\ ~underflow) => Len(box_stack) = 0
    /\ (phase = "drawing" /\ call_depth = 0 /\ ~underflow) => Len(box_stack) = 1

\* a balanced frame that opened and closed a scroll pane (its home button is
\* in the buffer) has ended
C10_Witness ==
    /\ phase = "idle" /\ swapchain # <<>> /\ call_depth = 0 /\ ~underflow
    /\ box_stack = <<>>
    /\ \E i \in DOMAIN swapchain[1].cells : swapchain[1].cells[i].value = "x"

(***************************************************************************)
(* Properties of the raw input decoder and of PollRawEvent                 *)
(***************************************************************************)
\* C1: every attempt of the decoder's loop leaves the index strictly greater
\* than it found it, whatever the bytes are, so the loop ends after at most
\* as many attempts as the text has bytes
C1_ParseAdvances ==
    (pc = "parse" /\ index < Len(text)) =>
        \A ind \in Indeterminate : parse(text, index, now, prev_mcl_tp, ind).index > index

NotResize(e) == e.type # "resize"
IsMouse(e) == e.type = "mouse"
IsPrefix(s1, s2) == Len(s1) <= Len(s2) /\ SubSeq(s2, 1, Len(s1)) = s1
KindsOf(evs) == [k \in 1..Len(evs) |-> evs[k].kind]

\* C6: however the SIGWINCH handler interleaves with PollRawEvent, the decoded
\* events leave the queue exactly as they were decoded: none lost, none
\* duplicated, none out of order, and nothing else but resize events between
C6_DecodedEventsSurvive ==
    LET got == SelectSeq(delivered \o pending_events, NotResize)
    IN  /\ IsPrefix(got, decoded)
        /\ (pc = "idle" => got = decoded)

\* C7: two left clicks at the same cell and nothing else: click, double-click
\* when the second report came less than 500 ms after the first, click, click
\* when it came 500 ms or more after it, however the reports fall into reads
C7_DoubleClickWindow ==
    (/\ pc = "idle" /\ tty = <<>> /\ signals = 0
     /\ Len(arrivals) = 2
     /\ arrivals[1].bytes = LeftRelease /\ arrivals[2].bytes = LeftRelease)
    => KindsOf(SelectSeq(delivered \o pending_events, IsMouse))
          = IF arrivals[2].at - arrivals[1].at < DoubleClickMs
            THEN <<"CLICK", "DOUBLE_CLICK">> ELSE <<"CLICK", "CLICK">>

RECURSIVE PressThenRelease(_, _)
PressThenRelease(evs, k) ==
    IF k > Len(evs) THEN TRUE
    ELSE IF evs[k].type # "key" THEN PressThenRelease(evs, k + 1)
    ELSE /\ evs[k].key_down
         /\ k + 1 <= Len(evs)
         /\ evs[k + 1] = [evs[k] EXCEPT !.key_down = FALSE]
         /\ PressThenRelease(evs, k + 2)

\* C8: in the order of delivery every key event comes with key_down = true and
\* the event right after it is the same key with key_down = false
C8_KeyPressThenRelease ==
    (pc = "idle" /\ signals = 0) => PressThenRelease(delivered \o pending_events, 1)

\* C9: a text that starts with an escape sequence no grammar accepts decodes to
\* what the rest of the text decodes to alone: no event for the malformed
\* sequence, the following sequence decoded as if nothing preceded it
C9_MalformedIsDropped ==
    \A m \in MalformedSeqs, w \in WellFormedSeqs \cup {<<>>} :
        (pc = "drain" /\ text = m \o w) =>
            \E ind \in Indeterminate :
                events = parse_events(w, 0, now, 0, ind, <<>>).events

(***************************************************************************)
(* Properties of unmatched EndPane calls, of clipping and of NoBox         *)
(***************************************************************************)
\* C11: an EndPane with no Begin* left to match never removes a box and lets
\* the frame go on: the call is fatal
C11_UnmatchedEndPaneIsFatal ==
    [][~(/\ phase = "drawing" /\ phase' = "drawing"
         /\ call_depth <= 0
         /\ Len(box_stack') < Len(box_stack))]_vars

\* the coordinate p, moved by the box's transform, is cell i of the buffer and
\* lies inside the buffer and inside the box
TransformsInto(box, buffer, p, i) ==
    /\ box_transform(box, p.col, p.row).ok
    /\ box_contains(box, box_transform(box, p.col, p.row).col,
                    box_transform(box, p.col, p.row).row)
    /\ buffer_contains(buffer, box_transform(box, p.col, p.row).col,
                       box_transform(box, p.col, p.row).row)
    /\ i = box_transform(box, p.col, p.row).row * buffer.width
             + box_transform(box, p.col, p.row).col

\* C12: a drawing call changes a cell of the back buffer only if that cell is
\* where the active box's transform puts one of the coordinates it was given,
\* inside the buffer and inside the box; any other coordinate changes nothing
C12_DrawingIsClipped ==
    [][(/\ phase = "drawing" /\ phase' = "drawing"
        /\ box_stack # <<>> /\ box_stack' = box_stack
        /\ Len(swapchain') = Len(swapchain))
       => \A i \in DOMAIN swapchain[Len(swapchain)].cells :
            swapchain'[Len(swapchain)].cells[i] # swapchain[Len(swapchain)].cells[i]
            => \E p \in asked' :
                 TransformsInto(get_current_box(box_stack), swapchain[Len(swapchain)], p, i)]_vars

\* some pane of the stack is a NoBox: the calls are inside a culled subtree
InNoBox == \E k \in DOMAIN box_stack : box_stack[k].kind = "NoBox"

\* C13: while a NoBox is on the pane stack no call changes a cell of any
\* buffer, and every Begin* call pushes one more NoBox
C13_NoBoxDrawsNothing ==
    [][(phase = "drawing" /\ InNoBox /\ phase' = "drawing")
       => /\ swapchain' = swapchain
          /\ (call_depth' = call_depth + 1 => box_stack' = Append(box_stack, NoBox))]_vars

\* a drawing call was made at {0,0} two panes deep in a culled subtree, and
\* the buffer is still blank
C13_Witness ==
    /\ phase = "drawing" /\ Len(box_stack) = 3
    /\ box_stack[2].kind = "NoBox" /\ box_stack[3].kind = "NoBox"
    /\ asked = {Pos(0, 0)} /\ ndraws = MaxDraws
    /\ swapchain[Len(swapchain)] = CellBuffer(window_size)

(***************************************************************************)
(* PollEvent (nite.cpp:2123-2161) and the per-frame interaction state      *)
(***************************************************************************)
MaxPolls == 2       \* clicks and scroll steps handled between two EndDrawing calls

NonPrintable == {"NUL", "ESC", "CR", "TAB", "DEL", "SOH", "LF"}

\* is_print: 32 <= c <= 126
is_print(c) == c \notin NonPrintable

Abs(n) == IF n < 0 THEN -n ELSE n

\* clicks counted and scroll steps accumulated since they were last reset
Activity ==
    btn_states["NONE"].click1_count + btn_states["NONE"].click2_count
    + btn_states["LEFT"].click1_count + btn_states["LEFT"].click2_count
    + btn_states["MIDDLE"].click1_count + btn_states["MIDDLE"].click2_count
    + btn_states["RIGHT"].click1_count + btn_states["RIGHT"].click2_count
    + Abs(mouse_scroll_v) + Abs(mouse_scroll_h)

\* the KeyEvent handler of PollEvent
PollKey(ev) ==
    /\ key_states' = (ev.key_code :> KeyState(is_print(ev.key_char), ev.key_down)) @@ key_states
    /\ UNCHANGED <<btn_states, mouse_pos, mouse_scroll_v, mouse_scroll_h>>

\* the MouseEvent handler of PollEvent
PollMouse(ev) ==
    CASE ev.kind = "CLICK" ->
            /\ btn_states' = [btn_states EXCEPT ![ev.button].click1_count = WrapSize(@ + 1)]
            /\ UNCHANGED <<key_states, mouse_pos, mouse_scroll_v, mouse_scroll_h>>
      [] ev.kind = "DOUBLE_CLICK" ->
            /\ btn_states' = [btn_states EXCEPT ![ev.button].click2_count = WrapSize(@ + 1)]
            /\ UNCHANGED <<key_states, mouse_pos, mouse_scroll_v, mouse_scroll_h>>
      [] ev.kind = "MOVED" ->
            /\ mouse_pos' = ev.pos
            /\ UNCHANGED <<key_states, btn_states, mouse_scroll_v, mouse_scroll_h>>
      [] ev.kind = "SCROLL_DOWN" ->
            /\ mouse_scroll_v' = mouse_scroll_v + 1
            /\ UNCHANGED <<key_states, btn_states, mouse_pos, mouse_scroll_h>>
      [] ev.kind = "SCROLL_UP" ->
            /\ mouse_scroll_v' = mouse_scroll_v - 1
            /\ UNCHANGED <<key_states, btn_states, mouse_pos, mouse_scroll_h>>
      [] ev.kind = "SCROLL_LEFT" ->
            /\ mouse_scroll_h' = mouse_scroll_h - 1
            /\ UNCHANGED <<key_states, btn_states, mouse_pos, mouse_scroll_v>>
      [] ev.kind = "SCROLL_RIGHT" ->
            /\ mouse_scroll_h' = mouse_scroll_h + 1
            /\ UNCHANGED <<key_states, btn_states, mouse_pos, mouse_scroll_v>>

\* PollEvent(state, event) returning true: event is what PollRawEvent handed
\* back; focus and resize events have no handler here
PollEvent(event) ==
    /\ phase \in {"idle", "drawing"}
    /\ Activity < MaxPolls
    /\ CASE event.type = "key" -> PollKey(event)
         [] event.type = "mouse" -> PollMouse(event)
         [] OTHER -> UNCHANGED pollVars
    /\ UNCHANGED <<frameVars, scrollVars, inputVars, asked, textVars, termVars>>

\* IsKeyDown
IsKeyDown(key_code) == key_code \in DOMAIN key_states /\ key_states[key_code].down

PollEvents ==
    {KeyEvent(TRUE, "K_A", "a", {}), KeyEvent(FALSE, "K_A", "a", {}),
     KeyEvent(TRUE, "ESCAPE", "ESC", {}),
     MouseEvent("CLICK", "LEFT", Pos(1, 0), {}),
     MouseEvent("DOUBLE_CLICK", "LEFT", Pos(1, 0), {}),
     MouseEvent("CLICK", "RIGHT", Pos(0, 0), {}),
     MouseEvent("MOVED", "NONE", Pos(1, 0), {}),
     MouseEvent("SCROLL_DOWN", "NONE", Pos(0, 0), {}),
     MouseEvent("SCROLL_UP", "NONE", Pos(0, 0), {}),
     MouseEvent("SCROLL_LEFT", "NONE", Pos(0, 0), {}),
     MouseEvent("SCROLL_RIGHT", "NONE", Pos(0, 0), {}),
     FocusEvent(TRUE)}

\* an application's loop: events are polled, frames are drawn
InitPoll == InitState /\ scroll_info = DefaultScrollInfo /\ window_size = InputWindow /\ InitTerminal

NextPoll ==
    \/ \E event \in PollEvents : PollEvent(event)
    \/ BeginDrawing
    \/ EndDrawing

SpecPoll == InitPoll /\ [][NextPoll]_vars

\* C14: when EndDrawing returns, every button's click and double-click counter
\* is 0, both scroll deltas are 0, no key of the key table is down and the
\* mouse position is the initial one
C14_FrameEndResetsInteraction ==
    [][(phase = "drawing" /\ phase' = "idle")
       => /\ \A b \in DOMAIN btn_states' : btn_states'[b] = BtnState
          /\ mouse_scroll_v' = 0 /\ mouse_scroll_h' = 0
          /\ \A k \in DOMAIN key_states' : ~key_states'[k].down
          /\ mouse_pos' = Pos(0, 0)]_vars

(***************************************************************************)
(* TextInputState (nite.hpp:2104-2258) and TextInput (nite.cpp:1927-2045)  *)
(***************************************************************************)
MaxText == 3        \* longest text typed into the widget

Newline == "LF"
npos == SizeMod - 1

\* std::string::erase(pos, len) and insert(begin() + pos, c); pos <= size
str_erase(data, pos, len) ==
    SubSeq(data, 1, pos) \o SubSeq(data, pos + MinOf(len, Len(data) - pos) + 1, Len(data))
str_insert(data, pos, c) == SubSeq(data, 1, pos) \o <<c>> \o SubSeq(data, pos + 1, Len(data))
\* std::string::replace(pos, 1, 1, c): at most one character gives way to c
str_replace(data, pos, c) == str_insert(str_erase(data, pos, 1), pos, c)

\* data.substr(0, cursor).find_last_of('\n')
find_last_newline(data, cursor) ==
    IF \E i \in 1 .. cursor : data[i] = Newline
    THEN CHOOSE i \in 0 .. cursor - 1 :
            /\ data[i + 1] = Newline
            /\ \A j \in i + 2 .. cursor : data[j] # Newline
    ELSE npos

\* data.substr(cursor).find_first_of('\n')
find_first_newline(data, cursor) ==
    IF \E i \in cursor + 1 .. Len(data) : data[i] = Newline
    THEN CHOOSE i \in 0 .. Len(data) - cursor - 1 :
            /\ data[cursor + i + 1] = Newline
            /\ \A j \in cursor + 1 .. cursor + i : data[j] # Newline
    ELSE npos

move_left(t) == [t EXCEPT !.cursor = IF t.cursor > 1 THEN t.cursor - 1 ELSE 0]

\* (mutant) the cursor moves right without looking at the length of the text
move_right_unclamped(t) == [t EXCEPT !.cursor = WrapSize(t.cursor + 1)]

move_right(t) ==
    [t EXCEPT !.cursor = IF WrapSize(t.cursor + 1) >= Len(t.data) THEN Len(t.data)
                         ELSE t.cursor + 1]

insert_char(t, c) ==
    move_right([t EXCEPT !.data = IF t.insert_mode THEN str_replace(t.data, t.cursor, c)
                                  ELSE str_insert(t.data, t.cursor, c)])

on_key_backspace(t) ==
    move_left(IF 1 <= t.cursor /\ t.cursor <= Len(t.data)
              THEN [t EXCEPT !.data = str_erase(t.data, t.cursor - 1, 1)]
              ELSE t)

\* data.size() - 1 wraps for an empty string
on_key_delete(t) ==
    IF t.cursor <= WrapSize(Len(t.data) - 1)
    THEN [t EXCEPT !.data = str_erase(t.data, t.cursor, 1)]
    ELSE t

\* (mutant) Home goes to the start of the text
go_home_to_start(t) == [t EXCEPT !.cursor = 0]

\* the test reads cursor, not idx: idx + 1 wraps to 0 when nothing is found
go_home(t) ==
    [t EXCEPT !.cursor = IF t.cursor = npos THEN 0
                         ELSE WrapSize(find_last_newline(t.data, t.cursor) + 1)]

go_end(t) ==
    [t EXCEPT !.cursor = IF find_first_newline(t.data, t.cursor) = npos THEN Len(t.data)
                         ELSE find_first_newline(t.data, t.cursor) + t.cursor]

\* (mutant) Insert switches overwrite mode on and never off
toggle_insert_mode_sets(t) == [t EXCEPT !.insert_mode = TRUE]

toggle_insert_mode(t) == [t EXCEPT !.insert_mode = ~t.insert_mode]

\* (mutant) the anchor follows the cursor on every call
start_selection_anchors_again(t) ==
    [t EXCEPT !.selection_mode = TRUE, !.selection_pivot = t.cursor]

start_selection(t) ==
    IF t.selection_mode THEN t
    ELSE [t EXCEPT !.selection_mode = TRUE, !.selection_pivot = t.cursor]

end_selection(t) == [t EXCEPT !.selection_mode = FALSE]

\* get_selection_range: <<selection_start, selection_end>>
get_selection_range(t) ==
    IF ~t.selection_mode THEN <<0, 0>>
    ELSE IF t.cursor >= t.selection_pivot THEN <<t.selection_pivot, t.cursor>>
    ELSE <<t.cursor, t.selection_pivot>>

\* (mutant) the selected text is erased and the cursor stays where it was
erase_selection_keeps_cursor(t) ==
    IF ~t.selection_mode THEN t
    ELSE [t EXCEPT !.data = str_erase(t.data, get_selection_range(t)[1],
                                      get_selection_range(t)[2] - get_selection_range(t)[1])]

erase_selection(t) ==
    IF ~t.selection_mode THEN t
    ELSE [t EXCEPT !.data = str_erase(t.data, get_selection_range(t)[1],
                                      get_selection_range(t)[2] - get_selection_range(t)[1]),
                   !.cursor = get_selection_range(t)[1],
                   !.selection_pivot = get_selection_range(t)[1]]

\* set_cursor: the clamped value is overwritten by the index
set_cursor(t, i) == [t EXCEPT !.cursor = i]

is_selected(t) == t.selection_mode

\* erase_selection(); end_selection(); when something is selected
drop_selection(t) == IF is_selected(t) THEN end_selection(erase_selection(t)) ELSE t

\* the block `if (ev.modifiers & KEY_SHIFT)` of a movement key
shift_block(t, ev, moved) == IF "SHIFT" \in ev.modifiers THEN moved ELSE t

\* the body of TextInput's loop for one captured KeyEvent
text_input_key(t, ev) ==
    IF ~ev.key_down THEN t
    ELSE CASE ev.key_code = "ESCAPE" -> end_selection(t)
      [] ev.key_code = "BACKSPACE" ->
            IF ev.modifiers # {} THEN t
            ELSE IF is_selected(t) THEN drop_selection(t) ELSE on_key_backspace(t)
      [] ev.key_code = "DELETE" ->
            IF ev.modifiers # {} THEN t
            ELSE IF is_selected(t) THEN drop_selection(t) ELSE on_key_delete(t)
      [] ev.key_code = "LEFT" ->
            IF ev.modifiers = {}
            THEN (IF is_selected(t)
                  THEN set_cursor(end_selection(t), get_selection_range(t)[1])
                  ELSE move_left(t))
            ELSE shift_block(t, ev, move_left(start_selection(t)))
      [] ev.key_code = "RIGHT" ->
            IF ev.modifiers = {}
            THEN (IF is_selected(t)
                  THEN set_cursor(end_selection(t), get_selection_range(t)[2])
                  ELSE move_right(t))
            ELSE shift_block(t, ev, move_right(start_selection(t)))
      [] ev.key_code = "HOME" ->
            IF ev.modifiers = {} THEN go_home(end_selection(t))
            ELSE shift_block(t, ev, go_home(start_selection(t)))
      [] ev.key_code = "END" ->
            IF ev.modifiers = {} THEN go_end(end_selection(t))
            ELSE shift_block(t, ev, go_end(start_selection(t)))
      [] ev.key_code = "INSERT" ->
            IF ev.modifiers = {} THEN toggle_insert_mode(t) ELSE t
      [] ev.key_code = "ENTER" ->
            IF ev.modifiers = {} THEN insert_char(drop_selection(t), Newline) ELSE t
      [] OTHER ->
            IF (ev.modifiers = {} \/ "SHIFT" \in ev.modifiers) /\ is_print(ev.key_char)
            THEN insert_char(drop_selection(t), ev.key_char)
            ELSE t

\* TextInput handles a captured event; only KeyEvents have a handler
TextInputEvent(ev) ==
    /\ Len(text_input_key(text_state, ev).data) <= MaxText
    /\ text_state' = IF ev.type = "key" THEN text_input_key(text_state, ev) ELSE text_state
    /\ last_key' = ev
    /\ UNCHANGED <<calls, rendered>>
    /\ UNCHANGED <<frameVars, scrollVars, inputVars, asked, pollVars, termVars>>

Key(code, ch) == KeyEvent(TRUE, code, ch, {})
ShiftKey(code, ch) == KeyEvent(TRUE, code, ch, {"SHIFT"})

TextKeys ==
    {Key("K_A", "a"), Key("K_B", "b"), Key("K_C", "c"), Key("ENTER", "CR"),
     Key("HOME", "NUL"), ShiftKey("HOME", "NUL"), Key("END", "NUL"), ShiftKey("END", "NUL"),
     Key("LEFT", "NUL"), ShiftKey("LEFT", "NUL"), Key("RIGHT", "NUL"), ShiftKey("RIGHT", "NUL"),
     Key("BACKSPACE", "DEL"), Key("DELETE", "NUL"), Key("INSERT", "NUL"),
     Key("ESCAPE", "ESC"), KeyEvent(FALSE, "K_A", "a", {}),
     KeyEvent(TRUE, "K_A", "a", {"CTRL"})}

\* a text field fed with key events
InitText == InitState /\ scroll_info = DefaultScrollInfo /\ window_size = InputWindow /\ InitTerminal

NextText == \E ev \in TextKeys : TextInputEvent(ev)

SpecText == InitText /\ [][NextText]_vars

(* Properties of the text field *)
\* the text state after TextInput handled the events of keys, first to last
RECURSIVE text_after(_, _)
text_after(t, keys) ==
    IF keys = <<>> THEN t ELSE text_after(text_input_key(t, Head(keys)), Tail(keys))

\* the line around position c: from after the newline before c to the newline
\* at or after c
LineStart(data, c) ==
    CHOOSE i \in 0 .. c : /\ (i = 0 \/ data[i] = Newline)
                          /\ \A j \in i + 1 .. c : data[j] # Newline
LineEnd(data, c) ==
    CHOOSE i \in c .. Len(data) : /\ (i = Len(data) \/ data[i + 1] = Newline)
                                  /\ \A j \in c + 1 .. i : data[j] # Newline

AbcThenHomeShiftEndBackspace ==
    text_after(EmptyTextInput,
               <<Key("K_A", "a"), Key("K_B", "b"), Key("K_C", "c"), Key("HOME", "NUL"),
                 ShiftKey("END", "NUL"), Key("BACKSPACE", "DEL")>>)

\* C15: "abc", Home, Shift+End, Backspace typed into an empty field leave an
\* empty text, cursor 0 and no selection; Shift+End right after Home selects
\* the line the cursor is on, from its start to its end; Backspace with a
\* selection removes the selected range, puts the cursor at its start and ends
\* the selection
C15_HomeShiftEndBackspace ==
    /\ AbcThenHomeShiftEndBackspace.data = <<>>
    /\ AbcThenHomeShiftEndBackspace.cursor = 0
    /\ ~AbcThenHomeShiftEndBackspace.selection_mode
    /\ [][/\ (last_key = Key("HOME", "NUL") /\ last_key' = ShiftKey("END", "NUL"))
             => /\ text_state'.selection_mode
                /\ text_state'.data = text_state.data
                /\ get_selection_range(text_state')
                     = <<LineStart(text_state.data, text_state.cursor),
                         LineEnd(text_state.data, text_state.cursor)>>
          /\ (last_key' = Key("BACKSPACE", "DEL") /\ text_state.selection_mode)
             => /\ text_state'.data
                     = SubSeq(text_state.data, 1, get_selection_range(text_state)[1])
                       \o SubSeq(text_state.data, get_selection_range(text_state)[2] + 1,
                                 Len(text_state.data))
                /\ text_state'.cursor = get_selection_range(text_state)[1]
                /\ ~text_state'.selection_mode]_vars

\* "abc" was typed and Home, Shift+End have selected all of it
C15_Witness ==
    /\ last_key = ShiftKey("END", "NUL")
    /\ text_state.data = <<"a", "b", "c">>
    /\ text_state.selection_mode
    /\ get_selection_range(text_state) = <<0, 3>>

\* the event is a printable key typed without modifiers
TypedPlain(ev) == ev \in {Key("K_A", "a"), Key("K_B", "b"), Key("K_C", "c")}

AbcOverwrittenFromHome ==
    text_after(EmptyTextInput,
               <<Key("K_A", "a"), Key("K_B", "b"), Key("K_C", "c"), Key("HOME", "NUL"),
                 Key("INSERT", "NUL"), Key("K_B", "b"), Key("K_B", "b"), Key("K_B", "b")>>)

\* C16 as stated: in overwrite mode every printable key replaces the unit at
\* the cursor, moves the cursor one to the right and keeps the length
C16_OverwriteKeepsLength ==
    [][(text_state.insert_mode /\ TypedPlain(last_key'))
       => /\ Len(text_state'.data) = Len(text_state.data)
          /\ text_state'.cursor = text_state.cursor + 1
          /\ text_state'.data = [text_state.data EXCEPT ![text_state.cursor + 1] = last_key'.key_char]]_vars

\* C16: in overwrite mode a printable key typed with no selection and the
\* cursor before the end of the text replaces the unit at the cursor, moves the
\* cursor one to the right and keeps the length; at the end of the text it
\* appends, and without overwrite mode it shifts the tail; three keys typed
\* over "abc" from cursor 0 leave a text of length 3; a plain Insert flips the
\* mode and no other key changes it
C16_OverwriteReplacesBeforeEnd ==
    /\ AbcOverwrittenFromHome.data = <<"b", "b", "b">>
    /\ AbcOverwrittenFromHome.cursor = 3
    /\ [][/\ (/\ text_state.insert_mode /\ TypedPlain(last_key')
              /\ ~text_state.selection_mode
              /\ text_state.cursor < Len(text_state.data))
             => /\ Len(text_state'.data) = Len(text_state.data)
                /\ text_state'.cursor = text_state.cursor + 1
                /\ text_state'.data
                     = [text_state.data EXCEPT ![text_state.cursor + 1] = last_key'.key_char]
          /\ (/\ TypedPlain(last_key') /\ ~text_state.selection_mode
              /\ (~text_state.insert_mode \/ text_state.cursor = Len(text_state.data)))
             => /\ Len(text_state'.data) = Len(text_state.data) + 1
                /\ text_state'.cursor = text_state.cursor + 1
                /\ text_state'.data
                     = SubSeq(text_state.data, 1, text_state.cursor)
                       \o <<last_key'.key_char>>
                       \o SubSeq(text_state.data, text_state.cursor + 1, Len(text_state.data))
          /\ text_state'.insert_mode
               = (IF last_key' = Key("INSERT", "NUL") THEN ~text_state.insert_mode
                  ELSE text_state.insert_mode)]_vars

\* a key was typed over "abc" in overwrite mode: the text still has three units
C16_Witness ==
    /\ text_state.insert_mode /\ ~text_state.selection_mode
    /\ TypedPlain(last_key)
    /\ text_state.data = <<"b", "b", "c">> /\ text_state.cursor = 2

(* Properties of the decoded mouse reports *)
IsClick2(e) == e.type = "mouse" /\ e.kind \in {"CLICK", "DOUBLE_CLICK"}

\* C17: a decoded double-click follows a click of the same button: the click
\* decoded last before it has its button; a click that follows a click of
\* another button stays a plain click
C17_DoubleClickSameButton ==
    \A k \in 1 .. Len(SelectSeq(decoded, IsClick2)) :
        SelectSeq(decoded, IsClick2)[k].kind = "DOUBLE_CLICK"
        => /\ k > 1
           /\ SelectSeq(decoded, IsClick2)[k - 1].button = SelectSeq(decoded, IsClick2)[k].button

\* C18: a report of button 0, 1 or 2 without the drag flag decodes to a click
\* of that button when its final byte is 'M' (press) and to a moved event
\* without a button when its final byte is 'm' (release)
C18_PressClicksReleaseMoves ==
    pc = "drain" =>
        /\ text = LeftPress => events = <<MouseEvent("CLICK", "LEFT", Pos(0, 0), {})>>
        /\ text = LeftRelease => events = <<MouseEvent("MOVED", "NONE", Pos(0, 0), {})>>
        /\ text = RightRelease => events = <<MouseEvent("MOVED", "NONE", Pos(0, 0), {})>>


(***************************************************************************)
(* The resize event and the input still buffered                           *)
(***************************************************************************)
\* the events PollRawEvent returned before the first resize event
RECURSIVE before_resize(_)
before_resize(evs) ==
    IF evs = <<>> \/ Head(evs).type = "resize" THEN <<>>
    ELSE <<Head(evs)>> \o before_resize(Tail(evs))

\* C19: once a SIGWINCH was raised, PollRawEvent returns a resize event
\* before every event decoded from bytes that were received but not yet
\* decoded at that moment: the input events returned ahead of the first
\* resize event are no more than the events decoded when the signal was
\* raised.
C19_ResizeAheadOfBufferedInput ==
    resize_mark >= 0 => Len(before_resize(delivered)) <= resize_mark


(***************************************************************************)
(* BeginGridPane's cells                                                   *)
(***************************************************************************)
\* GridPaneInfo values explored: a 100x100 and a 50x90 grid, at the origin
\* and away from it, with two or three columns and two rows
GridPaneInputs ==
    [pos : {Pos(0, 0), Pos(1, 2)},
     size : {Sz(100, 100), Sz(50, 90)},
     col_sizes : {<<50, 50>>, <<29, 71>>, <<29, 29, 42>>},
     row_sizes : {<<50, 50>>, <<70, 30>>}]
GridCols == 0 .. 3
GridRows == 0 .. 2

InitGrid == InitState /\ scroll_info = DefaultScrollInfo /\ window_size = ClipWindow /\ InitTerminal

NextGrid ==
    \/ BeginDrawing
    \/ EndDrawing
    \/ \E info \in GridPaneInputs : Len(box_stack) = 1 /\ BeginGridPane(info)
    \/ \E c \in GridCols, r \in GridRows : BeginGridCell(c, r)
    \/ EndPane
    \/ SetCell("a", Pos(0, 0), RedBold)

SpecGrid == InitGrid /\ [][NextGrid]_vars

\* cell (i, j) of a grid at origin by exact arithmetic: offsets
\* floor(W * (c_0 + .. + c_{i-1}) / 100), floor(H * (r_0 + .. + r_{j-1}) / 100)
\* and size floor(W * c_i / 100), floor(H * r_j / 100)
ExactCell(origin, info, i, j) ==
    StaticBox(PosAdd(origin, Pos((info.size.width * SumSeq(info.col_sizes, i)) \div 100,
                                 (info.size.height * SumSeq(info.row_sizes, j)) \div 100)),
              Sz((info.size.width * info.col_sizes[i + 1]) \div 100,
                 (info.size.height * info.row_sizes[j + 1]) \div 100))

\* the GridBox BeginGridPane(info) pushes over the pane `pane`
GridOver(pane, info) ==
    GridBox(PosAdd(get_pos(pane), info.pos), info.size,
            Len(info.col_sizes), Len(info.row_sizes), grid_cells(info))

HalvesExample ==
    [pos |-> Pos(0, 0), size |-> Sz(100, 100), col_sizes |-> <<50, 50>>, row_sizes |-> <<50, 50>>]

\* what C20 says of a step, for the grid built from info and its cell (i, j)
GridStepIsExact(info, i, j) ==
    /\ (/\ box_stack # <<>>
        /\ get_current_box(box_stack).kind # "NoBox"
        /\ Len(box_stack') = Len(box_stack) + 1
        /\ BeginGridPane(info))
          => get_grid_cell(get_current_box(box_stack'), i, j)
               = ExactCell(get_pos(get_current_box(box_stack')), info, i, j)
    /\ (/\ Len(box_stack) > 1
        /\ get_current_box(box_stack).kind = "GridBox"
        /\ Len(box_stack') = Len(box_stack) + 1
        /\ get_current_box(box_stack) = GridOver(box_stack[Len(box_stack) - 1], info)
        /\ BeginGridCell(i, j))
          => get_current_box(box_stack')
               = ExactCell(get_pos(get_current_box(box_stack)), info, i, j)

HalvesInputs ==
    {info \in GridPaneInputs : info.col_sizes = <<50, 50>> /\ info.row_sizes = <<50, 50>>}

\* C20: BeginGridPane with size (W,H), column weights c and row weights r
\* gives cell (i,j) the position pane origin + (floor(W*(c_0+..+c_{i-1})/100),
\* floor(H*(r_0+..+r_{j-1})/100)) and the size (floor(W*c_i/100),
\* floor(H*r_j/100)), and BeginGridCell(i,j) pushes exactly that box; with
\* weights {50,50} x {50,50} over a 100x100 pane at the origin,
\* BeginGridCell(1,1) yields position (50,50) and size (50,50).
C20_GridCellGeometry ==
    /\ get_grid_cell(GridOver(StaticBox(Pos(0, 0), ClipWindow), HalvesExample), 1, 1)
          = StaticBox(Pos(50, 50), Sz(50, 50))
    /\ [][\A info \in GridPaneInputs :
             \A i \in 0 .. Len(info.col_sizes) - 1, j \in 0 .. Len(info.row_sizes) - 1 :
                GridStepIsExact(info, i, j)]_vars

\* the same for the weights whose hundredths are halves only
C20_HalvesAreExact ==
    [][\A info \in HalvesInputs : \A i \in 0 .. 1, j \in 0 .. 1 :
            GridStepIsExact(info, i, j)]_vars

\* the example grid with BeginGridCell(1, 1) on top
C20_Example ==
    /\ Len(box_stack) = 3
    /\ box_stack[2] = GridOver(box_stack[1], HalvesExample)
    /\ box_stack[3] = StaticBox(Pos(50, 50), Sz(50, 50))


(***************************************************************************)
(* BeginGridCell                                                           *)
(***************************************************************************)
\* the box BeginGridCell(col, row) is to push over the box `top`
CellOrNoBox(top, col, row) ==
    IF top.kind = "GridBox" /\ col < top.num_cols /\ row < top.num_rows
    THEN StaticBox(top.grid[row * top.num_cols + col + 1].pos,
                   top.grid[row * top.num_cols + col + 1].size)
    ELSE NoBox

\* C21: BeginGridCell(col,row) pushes the precomputed cell box when col and
\* row are within the grid on top of the stack, and a NoBox when either
\* index is out of range or the top is not a grid; nothing drawn while that
\* NoBox is on the stack changes a buffer.
C21_GridCellOrNoBox ==
    [][/\ \A c \in GridCols, r \in GridRows :
            (/\ box_stack # <<>>
             /\ Len(box_stack') = Len(box_stack) + 1
             /\ BeginGridCell(c, r))
               => get_current_box(box_stack') = CellOrNoBox(get_current_box(box_stack), c, r)
       /\ (phase = "drawing" /\ InNoBox /\ phase' = "drawing") => swapchain' = swapchain]_vars

\* a cell out of range was asked of a grid at the origin, a drawing call at
\* {0,0} followed, and the buffer is still blank
C21_Witness ==
    /\ phase = "drawing" /\ Len(box_stack) = 3
    /\ box_stack[2].kind = "GridBox" /\ box_stack[2].pos = Pos(0, 0)
    /\ box_stack[3].kind = "NoBox"
    /\ asked = {Pos(0, 0)} /\ ndraws = 1
    /\ swapchain[Len(swapchain)] = CellBuffer(window_size)


(***************************************************************************)
(* The home button of a scroll pane                                        *)
(***************************************************************************)
IsHomeClick(ev, info, pane) == IsClick(ev) /\ PosSubWrap(ev.pos, pane) = home_cell_btn(info)

\* event k of the captured events is a home click, and BeginScrollPane
\* leaves the pivot the events after it make of the origin
HomeClickResets(k) ==
    (/\ box_stack # <<>>
     /\ get_current_box(box_stack).kind # "NoBox"
     /\ IsHomeClick(captured[k], scroll_info, get_pos(get_current_box(box_stack)))
     /\ BeginScrollPane(scroll_info))
       => scroll_pivot' = BeginScrollPanePivot(Pos(0, 0),
                              SubSeq(captured, k + 1, Len(captured)), scroll_info,
                              get_pos(get_current_box(box_stack)))

\* C22: a left click on the home button resets the pivot to the origin:
\* the scroll inputs captured before the click in the same frame have no
\* effect on the pivot BeginScrollPane leaves.
C22_HomeClickDiscardsEarlier ==
    [][\A k \in DOMAIN captured : HomeClickResets(k)]_vars

\* the same when the home click is the first event captured
C22_HomeClickFirst ==
    [][captured # <<>> => HomeClickResets(1)]_vars


(***************************************************************************)
(* SpecMouse: one Parser over one SGR mouse report, for every control byte *)
(***************************************************************************)
\* the decimal digits a terminal writes for n
RECURSIVE Decimal(_)
Decimal(n) ==
    IF n < 10 THEN <<CHOOSE c \in Digits : DigitVal(c) = n>>
    ELSE Append(Decimal(n \div 10), CHOOSE c \in Digits : DigitVal(c) = n % 10)

\* "\033[<b;x;yM" or "\033[<b;x;ym"
MouseReport(b, x, y, final) ==
    <<"ESC", "[", "<">> \o Decimal(b) \o <<";">> \o Decimal(x) \o <<";">> \o Decimal(y)
        \o <<final>>

ControlBytes == 0 .. UINT8_MAX
ReportCols == {1, 12}
ReportRows == {1, 3}
MouseReports ==
    {MouseReport(b, x, y, final) :
        b \in ControlBytes, x \in ReportCols, y \in ReportRows, final \in {"M", "m"}}

InitMouse ==
    /\ swapchain = <<>> /\ box_stack = <<>> /\ writes = <<>> /\ cleared = FALSE
    /\ phase = "idle" /\ prev_buf = NoBuffer /\ call_depth = 0 /\ underflow = FALSE
    /\ ndraws = 0 /\ scroll_pivot = Pos(0, 0) /\ captured = <<>> /\ asked = {}
    /\ InitPollState
    /\ scroll_info = DefaultScrollInfo /\ window_size = InputWindow
    /\ text \in MouseReports
    /\ tty = <<>> /\ arrivals = <<[bytes |-> text, at |-> StartTime]>>
    /\ now = StartTime /\ signals = 0 /\ pc = "parse" /\ index = 0 /\ prev_mcl_tp = 0
    /\ events = <<>> /\ pending_events = <<>> /\ inflight = NoElement
    /\ delivered = <<>> /\ decoded = <<>> /\ resize_mark = -1
    /\ InitTerminal

SpecMouse == InitMouse /\ [][NextParse]_vars

\* the numbers b, x, y of a report
ReportNums(txt) ==
    expect_all(txt, [ok |-> TRUE, index |-> 0, nums |-> <<>>], MouseGrammar).nums

\* bits {0,1,6,7} of b as a number
ButtonNumber(b) == (b % 4) + 4 * ((b \div 64) % 4)

\* what C23 has a report with control byte b at (x, y) decode to
ReportedKind(b) ==
    CASE ButtonNumber(b) \in {0, 1, 2} -> IF Bit(b, 5) THEN "MOVED" ELSE "CLICK"
      [] ButtonNumber(b) = 3 -> "MOVED"
      [] ButtonNumber(b) = 4 -> "SCROLL_UP"
      [] ButtonNumber(b) = 5 -> "SCROLL_DOWN"
      [] ButtonNumber(b) = 6 -> "SCROLL_LEFT"
      [] ButtonNumber(b) = 7 -> "SCROLL_RIGHT"
      [] OTHER -> "none"

ReportedButton(b) ==
    CASE ButtonNumber(b) = 0 /\ ~Bit(b, 5) -> "LEFT"
      [] ButtonNumber(b) = 1 /\ ~Bit(b, 5) -> "MIDDLE"
      [] ButtonNumber(b) = 2 /\ ~Bit(b, 5) -> "RIGHT"
      [] OTHER -> "NONE"

Reported(nums) ==
    MouseEvent(ReportedKind(nums[1]), ReportedButton(nums[1]),
               Pos(nums[2] - 1, nums[3] - 1),
               (IF Bit(nums[1], 2) THEN {"SHIFT"} ELSE {})
                   \cup (IF Bit(nums[1], 3) THEN {"ALT"} ELSE {})
                   \cup (IF Bit(nums[1], 4) THEN {"CTRL"} ELSE {}))

\* C23: for every SGR mouse report with control byte b in 0..255 the button
\* number is bits {0,1,6,7} of b, the drag flag bit 5, the modifiers bits 2
\* (shift), 3 (alt), 4 (ctrl); button numbers 0, 1, 2 are a click of left,
\* middle, right (a button-less move with the drag flag), 3 a bare move, 4
\* and 5 wheel up and down, 6 and 7 wheel left and right; the position is
\* (x-1, y-1).
C23_MouseReportDecoding ==
    (pc = "drain" /\ ButtonNumber(ReportNums(text)[1]) <= 7)
        => events = <<Reported(ReportNums(text))>>

\* the same for the reports with the drag flag clear that are not the press
\* of a button
C23_ReleasedAndUndragged ==
    (/\ pc = "drain" /\ ButtonNumber(ReportNums(text)[1]) <= 7
     /\ ~Bit(ReportNums(text)[1], 5)
     /\ (ButtonNumber(ReportNums(text)[1]) <= 2 => text[Len(text)] = "m"))
        => events = <<Reported(ReportNums(text))>>

\* wheel up with the drag flag set: "\033[<96;1;1M"
C23_DraggedWheel ==
    (pc = "drain" /\ text = MouseReport(96, 1, 1, "M"))
        => events = <<MouseEvent("SCROLL_UP", "NONE", Pos(0, 0), {})>>


(***************************************************************************)
(* SpecFill: the Fill*(pos, size) calls over the frame's root box          *)
(***************************************************************************)
FillPositions == {Pos(c, r) : c \in 0 .. 2, r \in 0 .. 2}
FillSizes == {Sz(w, h) : w \in 0 .. 2, h \in 0 .. 2}

InitFill == InitState /\ scroll_info = DefaultScrollInfo /\ window_size = PaneWindow /\ InitTerminal

NextFill ==
    \/ (swapchain = <<>> /\ BeginDrawing)
    \/ EndDrawing
    \/ \E pos \in FillPositions, size \in FillSizes : FillCellsSized("a", pos, size, RedBold)
    \/ \E pos \in FillPositions, size \in FillSizes : FillBackgroundSized(pos, size, Red)
    \/ \E pos \in FillPositions, size \in FillSizes : FillForegroundSized(pos, size, Red)

SpecFill == InitFill /\ [][NextFill]_vars

\* cell i of the buffer lies in the rectangle of size `size` at `pos`, local
\* to box, and passes the clipping of box and buffer
InFilledRect(box, buffer, pos, size, i) ==
    \E c \in pos.col .. pos.col + size.width - 1, r \in pos.row .. pos.row + size.height - 1 :
        TransformsInto(box, buffer, Pos(c, r), i)

\* the buffer is `before` but for the cells of the rectangle, which are
\* `before`'s with the field set (field "cell": glyph and style)
FilledExactly(before, after, box, pos, size, field, v) ==
    \A i \in DOMAIN before.cells :
        after.cells[i] =
            IF ~InFilledRect(box, before, pos, size, i) THEN before.cells[i]
            ELSE IF field = "cell" THEN v
            ELSE restyled(before.cells[i], field, v)

FillStepIsExact(pos, size) ==
    /\ FillCellsSized("a", pos, size, RedBold)
          => FilledExactly(swapchain[Len(swapchain)], swapchain'[Len(swapchain)],
                           get_current_box(box_stack), pos, size, "cell",
                           [value |-> "a", style |-> RedBold])
    /\ FillBackgroundSized(pos, size, Red)
          => FilledExactly(swapchain[Len(swapchain)], swapchain'[Len(swapchain)],
                           get_current_box(box_stack), pos, size, "bg", Red)
    /\ FillForegroundSized(pos, size, Red)
          => FilledExactly(swapchain[Len(swapchain)], swapchain'[Len(swapchain)],
                           get_current_box(box_stack), pos, size, "fg", Red)

\* C24: FillCells(pos, size), FillBackground(pos, size) and
\* FillForeground(pos, size) affect exactly the cells with column in
\* [pos.col, pos.col + size.width) and row in [pos.row, pos.row + size.height)
\* that pass clipping, for every pos and size.
C24_SizedFillRectangle ==
    [][(phase = "drawing" /\ phase' = "drawing" /\ box_stack # <<>>)
       => \A pos \in FillPositions, size \in FillSizes : FillStepIsExact(pos, size)]_vars

\* the same for the positions on the diagonal (pos.col = pos.row)
C24_DiagonalFill ==
    [][(phase = "drawing" /\ phase' = "drawing" /\ box_stack # <<>>)
       => \A pos \in {p \in FillPositions : p.col = p.row}, size \in FillSizes :
            FillStepIsExact(pos, size)]_vars


(***************************************************************************)
(* GetBufferSize                                                           *)
(***************************************************************************)
\* GetBufferSize: get_current_buffer().size(), the buffer at the front of
\* the swapchain
GetBufferSize == buffer_size(swapchain[1])

\* C25: between BeginDrawing and the matching EndDrawing GetBufferSize
\* returns the size of the buffer this frame's drawing calls write to (the
\* back of the swapchain), in every frame, the first one drawn after the
\* terminal size has changed included.
C25_BufferSizeIsDrawnBuffer ==
    phase = "drawing" => GetBufferSize = buffer_size(swapchain[Len(swapchain)])

\* the same in the frames whose buffer is the only one
C25_FirstFrame ==
    (phase = "drawing" /\ Len(swapchain) = 1)
        => GetBufferSize = buffer_size(swapchain[Len(swapchain)])

(***************************************************************************)
(* SpecTerm: frames presented to an observed terminal.                     *)
(***************************************************************************)
TermSizes == {Sz(1, 1), Sz(2, 1)}
TermGlyphs == {"a", NulGlyph}
TermStyles == {DefaultStyle, RedBold}
TermPositions == {Pos(0, 0), Pos(1, 0)}

InitTerm == InitState /\ scroll_info = DefaultScrollInfo /\ window_size \in TermSizes /\ InitScreen

NextTerm ==
    \/ BeginDrawing
    \/ EndDrawing
    \/ \E value \in TermGlyphs, pos \in TermPositions, style \in TermStyles :
           SetCell(value, pos, style)
    \/ \E size \in TermSizes : ResizeWindow(size)

SpecTerm == InitTerm /\ [][NextTerm]_vars

\* the cell of the screen at a column and row
term_at(T, col, row) == T.cells[row * T.width + col]

\* an EndDrawing call that presented a buffer of the size of the screen
Presented == phase = "drawing" /\ phase' = "idle" /\ swapchain' # <<>>
                /\ buffer_size(swapchain'[1]) = Sz(terminal'.width, terminal'.height)

\* a glyph the terminal prints in one column
Printable(value) == wc_to_str(value) # <<>> /\ Head(wc_to_str(value)).op = "CHAR"

\* the screen shows the glyph of every printable cell of the buffer
ShowsGlyphs(T, buf) ==
    \A col \in 0 .. T.width - 1, row \in 0 .. T.height - 1 :
        Printable(buffer_at(buf, col, row).value)
            => term_at(T, col, row).value = buffer_at(buf, col, row).value

\* C26: the cursor-position code is omitted only when the cursor is already
\* at the target cell, so after every EndDrawing call each cell of the
\* terminal shows the glyph of the current buffer's cell
C26_ScreenShowsBufferGlyphs ==
    [][Presented => ShowsGlyphs(terminal', swapchain'[1])]_vars

\* a full redraw of a buffer of printable glyphs is shown as it is
C26_FullRedrawOfPrintable ==
    [][(/\ Presented
        /\ Len(writes') = terminal'.width * terminal'.height
        /\ \A i \in DOMAIN writes' : Printable(writes'[i].cell.value))
          => ShowsGlyphs(terminal', swapchain'[1])]_vars

(***************************************************************************)
(* SpecStyle: frames of one glyph in three styles, two of them without     *)
(* STYLE_RESET, presented to an observed terminal.                         *)
(***************************************************************************)
RedItalic == [bg |-> "000000", fg |-> "ff0000", mode |-> {"ITALIC"}]
StyleStyles == {DefaultStyle, RedBold, RedItalic}

NextStyle ==
    \/ BeginDrawing
    \/ EndDrawing
    \/ \E pos \in TermPositions, style \in StyleStyles : SetCell("a", pos, style)
    \/ \E size \in TermSizes : ResizeWindow(size)

SpecStyle == InitTerm /\ [][NextStyle]_vars

\* the cell of the screen has the attributes and the colours of the style
ShowsStyle(shown, style) ==
    /\ shown.mode = style.mode \ {"RESET"}
    /\ shown.fg = style.fg
    /\ shown.bg = style.bg

\* C27: every cell written by the presenter is displayed with exactly the
\* attributes and the colours of its own style, whatever was emitted before
C27_WrittenCellsShowTheirStyle ==
    [][Presented =>
          \A i \in DOMAIN writes' :
              ShowsStyle(term_at(terminal', writes'[i].col, writes'[i].row),
                         writes'[i].cell.style)]_vars

\* after a cell whose style has STYLE_RESET the rendition in force is exactly
\* that style
C27_ResetStylesAreExact ==
    [][(Presented /\ writes' # <<>> /\ "RESET" \in writes'[Len(writes')].cell.style.mode)
          => ShowsStyle(terminal'.pen, writes'[Len(writes')].cell.style)]_vars

(***************************************************************************)
(* SpecWidget: events are polled and a Text widget is drawn in the frames  *)
(* (nite.cpp:1171-1193).                                                   *)
(***************************************************************************)
\* the handlers Text invokes, given the mouse position relative to the pane
\* and the button counters: the first branch of the if / else-if chain whose
\* count is positive, each of its invocations counted
text_handlers(info, rel, btns) ==
    LET none == [on_hover |-> 0, on_click |-> 0, on_menu |-> 0, on_click2 |-> 0]
    IN  IF ~box_contains(StaticBox(info.pos, Sz(Len(info.text), 1)), rel.col, rel.row)
        THEN none
        ELSE IF btns["LEFT"].click1_count > 0
        THEN [none EXCEPT !.on_click = IF info.on_click THEN btns["LEFT"].click1_count ELSE 0]
        ELSE IF btns["RIGHT"].click1_count > 0
        THEN [none EXCEPT !.on_menu = IF info.on_menu THEN btns["RIGHT"].click1_count ELSE 0]
        ELSE IF btns["LEFT"].click2_count > 0
        THEN [none EXCEPT !.on_click2 = IF info.on_click2 THEN btns["LEFT"].click2_count ELSE 0]
        ELSE [none EXCEPT !.on_hover = IF info.on_hover THEN 1 ELSE 0]

\* the coordinates the loop over info.text passes to set_cell
text_points(info) == [i \in 1 .. Len(info.text) |-> Pos(info.pos.col + i - 1, info.pos.row)]

\* for (size_t i = 0; char c: info.text) set_cell(info.pos.col + i, info.pos.row, c, info.style)
RECURSIVE text_cells(_, _, _, _)
text_cells(chain, box, info, i) ==
    IF i > Len(info.text) THEN chain
    ELSE text_cells(state_set_cell(chain, box, info.pos.col + i - 1, info.pos.row,
                                   info.text[i], info.style),
                    box, info, i + 1)

\* Text(state, info)
Text(info) ==
    /\ UNCHANGED <<inputVars, pollVars, termVars, text_state, last_key, rendered>>
    /\ Drawing /\ ndraws < MaxDraws
    /\ IF box_stack = <<>> THEN Fatal /\ UNCHANGED <<asked, calls>>
       ELSE /\ calls' = text_handlers(info, PosSubWrap(mouse_pos, get_pos(get_current_box(box_stack))),
                                      btn_states)
            /\ Drawn(text_cells(swapchain, get_current_box(box_stack), info, 1), text_points(info))

TextInfo(str, pos) ==
    [text |-> str, pos |-> pos, style |-> DefaultStyle,
     on_hover |-> TRUE, on_click |-> TRUE, on_menu |-> TRUE, on_click2 |-> TRUE]

TextInfos == {TextInfo(<<"a", "b">>, Pos(0, 0)), TextInfo(<<"a">>, Pos(1, 0))}

WidgetEvents ==
    {MouseEvent("CLICK", "LEFT", Pos(0, 0), {}),
     MouseEvent("DOUBLE_CLICK", "LEFT", Pos(0, 0), {}),
     MouseEvent("CLICK", "RIGHT", Pos(0, 0), {}),
     MouseEvent("MOVED", "NONE", Pos(0, 0), {}),
     MouseEvent("MOVED", "NONE", Pos(1, 0), {}),
     MouseEvent("MOVED", "NONE", Pos(0, 1), {})}

InitWidget == InitState /\ scroll_info = DefaultScrollInfo /\ window_size = InputWindow /\ InitTerminal

NextWidget ==
    \/ \E event \in WidgetEvents : PollEvent(event)
    \/ BeginDrawing
    \/ EndDrawing
    \/ \E info \in TextInfos : Text(info)

SpecWidget == InitWidget /\ [][NextWidget]_vars

\* a Text call that drew info while the mouse was over it
TextUnderMouse(info) ==
    /\ phase = "drawing" /\ box_stack # <<>> /\ ndraws' = ndraws + 1
    /\ asked' = SeqRange(text_points(info))
    /\ box_contains(StaticBox(info.pos, Sz(Len(info.text), 1)),
                    PosSubWrap(mouse_pos, get_pos(get_current_box(box_stack))).col,
                    PosSubWrap(mouse_pos, get_pos(get_current_box(box_stack))).row)

\* C28: with n left clicks and m left double clicks polled since the last
\* EndDrawing call (the counters PollEvent keeps for the left button) and the
\* mouse over a Text widget, drawing the widget invokes its click handler
\* exactly n times and its double-click handler exactly m times
C28_EveryCountedClickIsHandled ==
    [][\A info \in TextInfos :
          TextUnderMouse(info)
              => /\ calls'.on_click = btn_states["LEFT"].click1_count
                 /\ calls'.on_click2 = btn_states["LEFT"].click2_count]_vars

\* the clicks are handled n times, and the double clicks m times when no
\* click of the left or the right button was polled with them
C28_FirstPositiveCountIsHandled ==
    [][\A info \in TextInfos :
          TextUnderMouse(info)
              => /\ calls'.on_click = btn_states["LEFT"].click1_count
                 /\ (btn_states["LEFT"].click1_count = 0 /\ btn_states["RIGHT"].click1_count = 0)
                       => calls'.on_click2 = btn_states["LEFT"].click2_count]_vars

(***************************************************************************)
(* SpecNest: panes opened inside panes and inside a scroll pane whose      *)
(* pivot was left at the origin or at {1,1} by the frames before.          *)
(***************************************************************************)
NestPivots == {Pos(0, 0), Pos(1, 1)}
NestScrollInfos == {ScrollInfo(Pos(1, 0), Sz(2, 2), Sz(4, 4), 1, 1, FALSE, FALSE, FALSE)}
NestRects == {[pos |-> Pos(0, 0), size |-> Sz(1, 1)],
              [pos |-> Pos(1, 1), size |-> Sz(1, 1)],
              [pos |-> Pos(1, 1), size |-> Sz(2, 2)]}
NestPositions == {Pos(0, 0), Pos(1, 1)}

InitNest ==
    /\ swapchain = <<>> /\ box_stack = <<>> /\ writes = <<>> /\ cleared = FALSE
    /\ phase = "idle" /\ prev_buf = NoBuffer /\ call_depth = 0 /\ underflow = FALSE
    /\ ndraws = 0 /\ captured = <<>> /\ asked = {}
    /\ InitPollState
    /\ scroll_pivot \in NestPivots
    /\ scroll_info \in NestScrollInfos
    /\ window_size = PaneWindow
    /\ tty = <<>> /\ arrivals = <<>> /\ now = StartTime /\ signals = 0 /\ pc = "idle"
    /\ text = <<>> /\ index = 0 /\ prev_mcl_tp = 0 /\ events = <<>>
    /\ pending_events = <<>> /\ inflight = NoElement /\ delivered = <<>>
    /\ decoded = <<>> /\ resize_mark = -1
    /\ InitTerminal

NextNest ==
    \/ (swapchain = <<>> /\ BeginDrawing)
    \/ EndDrawing
    \/ \E r \in NestRects : BeginPane(r.pos, r.size)
    \/ BeginScrollPane(scroll_info)
    \/ EndPane
    \/ \E p \in NestPositions : SetCell("a", p, RedBold)

SpecNest == InitNest /\ [][NextNest]_vars

\* a drawing call made with a pane opened by BeginPane on top of a scroll pane
DrawsInPaneOfScrollPane ==
    /\ phase = "drawing" /\ phase' = "drawing" /\ ndraws' = ndraws + 1
    /\ Len(box_stack) >= 2 /\ box_stack' = box_stack
    /\ box_stack[Len(box_stack)].kind = "StaticBox"
    /\ box_stack[Len(box_stack) - 1].kind = "ScrollBox"

\* the swapchain after SetCell("a", (a+c, b+r), RedBold) called directly in
\* the scroll pane below the top pane, (a,b) the local offset of the top pane
DirectlyInScrollPane(p) ==
    LET child == box_stack[Len(box_stack)]
        scroll == box_stack[Len(box_stack) - 1]
    IN  state_set_cell(swapchain, scroll,
                       child.pos.col - scroll.pos.col + p.col,
                       child.pos.row - scroll.pos.row + p.row, "a", RedBold)

\* C29: drawing at (c,r) inside a pane opened with BeginPane at local offset
\* (a,b) within a scroll pane affects the same buffer cell as drawing at
\* (a+c, b+r) directly in the scroll pane, for every pivot
C29_PaneInScrollPaneIsLocal ==
    [][\A p \in NestPositions :
          (/\ DrawsInPaneOfScrollPane /\ asked' = {p}
           /\ p.col < box_stack[Len(box_stack)].size.width
           /\ p.row < box_stack[Len(box_stack)].size.height)
              => swapchain' = DirectlyInScrollPane(p)]_vars

\* with the pivot at the origin and the pane inside the viewport the two agree
C29_AtOriginPivot ==
    [][\A p \in NestPositions :
          (/\ DrawsInPaneOfScrollPane /\ asked' = {p}
           /\ p.col < box_stack[Len(box_stack)].size.width
           /\ p.row < box_stack[Len(box_stack)].size.height
           /\ box_stack[Len(box_stack) - 1].pivot = Pos(0, 0)
           /\ \A q \in NestPositions :
                 box_contains(box_stack[Len(box_stack)],
                              box_stack[Len(box_stack)].pos.col + q.col,
                              box_stack[Len(box_stack)].pos.row + q.row)
                    => box_contains(box_stack[Len(box_stack) - 1],
                                    box_stack[Len(box_stack)].pos.col + q.col,
                                    box_stack[Len(box_stack)].pos.row + q.row))
              => swapchain' = DirectlyInScrollPane(p)]_vars

\* a drawing call: the pane stack stays, the back buffer may change
DrawingStep ==
    /\ phase = "drawing" /\ phase' = "drawing"
    /\ box_stack # <<>> /\ box_stack' = box_stack
    /\ Len(swapchain') = Len(swapchain)

\* C30: a drawing call inside nested panes never changes a buffer cell that
\* lies outside the rectangle of any enclosing pane on the stack
C30_NoWriteOutsideEnclosingPanes ==
    [][DrawingStep =>
          \A i \in DOMAIN swapchain[Len(swapchain)].cells :
              swapchain'[Len(swapchain)].cells[i] # swapchain[Len(swapchain)].cells[i]
                  => \A k \in DOMAIN box_stack :
                         box_contains(box_stack[k], i % swapchain[Len(swapchain)].width,
                                      i \div swapchain[Len(swapchain)].width)]_vars

\* a changed cell is inside the rectangle of the pane on top of the stack
C30_InsideTheCurrentPane ==
    [][DrawingStep =>
          \A i \in DOMAIN swapchain[Len(swapchain)].cells :
              swapchain'[Len(swapchain)].cells[i] # swapchain[Len(swapchain)].cells[i]
                  => box_contains(get_current_box(box_stack),
                                  i % swapchain[Len(swapchain)].width,
                                  i \div swapchain[Len(swapchain)].width)]_vars

(***************************************************************************)
(* SpecClicks: one Parser over a run of mouse reports.                     *)
(***************************************************************************)
MaxClicks == 4      \* reports in the text of the Parser

ClickChunks == {LeftRelease, RightRelease, LeftPress}

\* n times the report c
RECURSIVE Run(_, _)
Run(c, n) == IF n = 0 THEN <<>> ELSE c \o Run(c, n - 1)

RECURSIVE ClickRuns(_)
ClickRuns(n) ==
    IF n = 0 THEN {<<>>}
    ELSE ClickRuns(n - 1) \cup {t \o c : t \in ClickRuns(n - 1), c \in ClickChunks}
ClickTexts == ClickRuns(MaxClicks) \ {<<>>}

InitClicks ==
    /\ swapchain = <<>> /\ box_stack = <<>> /\ writes = <<>> /\ cleared = FALSE
    /\ phase = "idle" /\ prev_buf = NoBuffer /\ call_depth = 0 /\ underflow = FALSE
    /\ ndraws = 0 /\ scroll_pivot = Pos(0, 0) /\ captured = <<>> /\ asked = {}
    /\ InitPollState
    /\ scroll_info = DefaultScrollInfo /\ window_size = InputWindow
    /\ text \in ClickTexts
    /\ tty = <<>>
    /\ arrivals = <<[bytes |-> text, at |-> StartTime]>>
    /\ now = StartTime
    /\ signals = 0
    /\ pc = "parse"
    /\ index = 0
    /\ prev_mcl_tp = 0
    /\ events = <<>>
    /\ pending_events = <<>>
    /\ inflight = NoElement
    /\ delivered = <<>>
    /\ decoded = <<>>
    /\ resize_mark = -1
    /\ InitTerminal

SpecClicks == InitClicks /\ [][NextParse]_vars

\* the text is a run of releases of one button
SameButtonReleases ==
    \E c \in {LeftRelease, RightRelease} : \E n \in 1 .. MaxClicks : text = Run(c, n)

\* C31: releases of one button decoded from one read, all of them within
\* 500 ms, alternate click, double-click, click, double-click, ...: the
\* double-click resets the timer, so the click after it is a plain click
C31_RapidClicksAlternate ==
    (SameButtonReleases /\ now - StartTime <= DoubleClickMs)
    => \A k \in 1 .. Len(decoded) :
           decoded[k].kind = IF k % 2 = 1 THEN "CLICK" ELSE "DOUBLE_CLICK"

\* three releases of the left button decoded from one read while the clock
\* moved on: click, double-click, click
C31_Witness ==
    /\ text = Run(LeftRelease, 3) /\ pc = "drain"
    /\ now > StartTime /\ now - StartTime <= DoubleClickMs
    /\ KindsOf(decoded) = <<"CLICK", "DOUBLE_CLICK", "CLICK">>

(***************************************************************************)
(* The arrow keys of the text input                                        *)
(***************************************************************************)
\* one unit to the left or to the right of c in a text of n units, staying
\* inside the text
OneLeft(c) == IF c = 0 THEN 0 ELSE c - 1
OneRight(c, n) == IF c >= n THEN n ELSE c + 1

\* what the arrow key k makes of the text state t, as the claim has it
ArrowMoves(t, u, k) ==
    /\ u.data = t.data
    /\ u.insert_mode = t.insert_mode
    /\ IF k.modifiers = {}
       THEN /\ ~u.selection_mode
            /\ u.cursor =
                 IF t.selection_mode
                 THEN (IF k.key_code = "LEFT" THEN MinOf(t.cursor, t.selection_pivot)
                       ELSE MaxOf(t.cursor, t.selection_pivot))
                 ELSE (IF k.key_code = "LEFT" THEN OneLeft(t.cursor)
                       ELSE OneRight(t.cursor, Len(t.data)))
       ELSE /\ u.selection_mode
            /\ u.selection_pivot = IF t.selection_mode THEN t.selection_pivot ELSE t.cursor
            /\ u.cursor = IF k.key_code = "LEFT" THEN OneLeft(t.cursor)
                          ELSE OneRight(t.cursor, Len(t.data))

HomeOrEnd(k) ==
    /\ k.type = "key" /\ k.key_down /\ k.key_code \in {"HOME", "END"}
    /\ (k.modifiers = {} \/ "SHIFT" \in k.modifiers)

\* C33: Home puts the cursor just after the nearest newline before it, or at
\* 0 when there is none; End puts it on the nearest newline at or after it,
\* or at the length of the text when there is none; the text stays as it is
C33_HomeEndLineBounds ==
    [][HomeOrEnd(last_key')
       => /\ text_state'.data = text_state.data
          /\ text_state'.cursor =
               IF last_key'.key_code = "HOME"
               THEN LineStart(text_state.data, text_state.cursor)
               ELSE LineEnd(text_state.data, text_state.cursor)]_vars

\* Home in the second line of "a\nb": the cursor is just after the newline
C33_Witness ==
    /\ last_key = Key("HOME", "NUL")
    /\ text_state.data = <<"a", Newline, "b">>
    /\ text_state.cursor = 2

(***************************************************************************)
(* The cursor and the selection stay inside the text                       *)
(***************************************************************************)
\* C34: whatever keys TextInput handled since the state was empty, the cursor
\* is between 0 and the length of the text, and while a selection is active
\* so is its anchor: the selection range [start, end) lies inside the text
\* and start <= end
C34_CursorAndSelectionInText ==
    /\ 0 <= text_state.cursor /\ text_state.cursor <= Len(text_state.data)
    /\ text_state.selection_mode =>
          /\ text_state.selection_pivot <= Len(text_state.data)
          /\ get_selection_range(text_state)[1] <= get_selection_range(text_state)[2]
          /\ get_selection_range(text_state)[2] <= Len(text_state.data)

\* the whole of a three-unit text is selected from its end backwards
C34_Witness ==
    /\ Len(text_state.data) = MaxText
    /\ text_state.selection_mode
    /\ text_state.selection_pivot = Len(text_state.data)
    /\ text_state.cursor = 0

(***************************************************************************)
(* SpecCursor: the application calls set_cursor between the key events.    *)
(* With the cursor past the end of the text the next key is undefined      *)
(* behaviour (data.insert(data.begin() + cursor, c), data.substr(cursor)): *)
(* the specification follows the program up to that call.                  *)
(***************************************************************************)
CursorIndexes == 0 .. MaxText + 1

SetCursorCall(i) == [type |-> "set_cursor", index |-> i]

\* text_state.set_cursor(i)
SetCursor(i) ==
    /\ text_state' = set_cursor(text_state, i)
    /\ last_key' = SetCursorCall(i)
    /\ UNCHANGED <<calls, rendered>>
    /\ UNCHANGED <<frameVars, scrollVars, inputVars, asked, pollVars, termVars>>

NextCursor ==
    \/ \E ev \in TextKeys :
          text_state.cursor <= Len(text_state.data) /\ TextInputEvent(ev)
    \/ \E i \in CursorIndexes : SetCursor(i)

SpecCursor == InitText /\ [][NextCursor]_vars

\* C35: after set_cursor(i) the cursor is min(i, length of the text), so no
\* cursor past the end of the text is left for a later insert or erase
C35_SetCursorClamps ==
    [][last_key'.type = "set_cursor"
       => text_state'.cursor = MinOf(last_key'.index, Len(text_state.data))]_vars

\* set_cursor with an index inside the text puts the cursor there
C35_IndexInsideText ==
    [][(last_key'.type = "set_cursor" /\ last_key'.index <= Len(text_state.data))
       => text_state'.cursor = last_key'.index]_vars

(***************************************************************************)
(* The order in which PollRawEvent returns the events                      *)
(***************************************************************************)
\* the decoded events among those returned so far
Returned == SelectSeq(delivered, NotResize)

\* C36: PollRawEvent returns the events first in, first out: what has been
\* returned so far, resize events apart, is the beginning of what the
\* Parsers decoded, in the order of the bytes and read after read, and once
\* the queue is empty every decoded event has been returned exactly once
C36_FirstInFirstOut ==
    /\ IsPrefix(Returned, decoded)
    /\ (pc = "idle" /\ pending_events = <<>>) => Returned = decoded

\* as long as no SIGWINCH was raised the events come out first in, first out
C36_WithoutSignal ==
    resize_mark = -1 =>
        /\ IsPrefix(SelectSeq(delivered, NotResize), decoded)
        /\ (pc = "idle" /\ pending_events = <<>>) => SelectSeq(delivered, NotResize) = decoded

(***************************************************************************)
(* The scroll factor                                                       *)
(***************************************************************************)
\* round(scroll_factor) for the positive factor num / den, halves away
\* from zero
RoundedFactor(info) == (2 * info.factor_num + info.factor_den) \div (2 * info.factor_den)

\* the pivot coordinate p after a net of n scroll units, as the claim has
\* it: n * round(scroll_factor) further, then clamped to [0, maxs - mins - 1]
ClaimedPivot(p, n, info, maxs, mins) ==
    IF p + n * RoundedFactor(info) < 0 THEN 0
    ELSE IF p + n * RoundedFactor(info) >= maxs - mins THEN maxs - mins - 1
    ELSE p + n * RoundedFactor(info)

\* BeginScrollPane is called with events captured, none of them a click on
\* the home button
ScrollsWithoutHome ==
    /\ box_stack # <<>>
    /\ get_current_box(box_stack).kind # "NoBox"
    /\ captured # <<>>
    /\ \A k \in DOMAIN captured :
          ~IsHomeClick(captured[k], scroll_info, get_pos(get_current_box(box_stack)))
    /\ BeginScrollPane(scroll_info)

\* the pivot of the axes whose content is more than one unit larger than the
\* viewport and whose bar is shown moves as the claim has it
MovesByRoundedFactor ==
    /\ (scroll_info.show_hscroll_bar
        /\ scroll_info.max_size.width > scroll_info.min_size.width + 1)
       => scroll_pivot'.col =
             ClaimedPivot(scroll_pivot.col,
                          SumH(captured, scroll_info, get_pos(get_current_box(box_stack))),
                          scroll_info, scroll_info.max_size.width, scroll_info.min_size.width)
    /\ (scroll_info.show_vscroll_bar
        /\ scroll_info.max_size.height > scroll_info.min_size.height + 1)
       => scroll_pivot'.row =
             ClaimedPivot(scroll_pivot.row,
                          SumV(captured, scroll_info, get_pos(get_current_box(box_stack))),
                          scroll_info, scroll_info.max_size.height, scroll_info.min_size.height)

\* C37: a frame with a net of n scroll units on an axis moves the pivot of
\* that axis by n * round(scroll_factor) before the clamp, whether the
\* factor is integral or fractional
C37_ScrollByRoundedFactor ==
    [][ScrollsWithoutHome => MovesByRoundedFactor]_vars

\* the same for the integral scroll factors
C37_IntegralFactor ==
    [][(scroll_info.factor_den = 1 /\ ScrollsWithoutHome) => MovesByRoundedFactor]_vars

(***************************************************************************)
(* SpecRender: TextInput handles keys and renders the text                 *)
(* (TextInputState::process, nite.cpp:1902-1925).                          *)
(***************************************************************************)
StyledChar(value, style) == [value |-> value, style |-> style]

\* the defaults of TextInputInfo (nite.hpp:2272-2281)
TextInputInfo ==
    [text_style |-> [bg |-> "000000", fg |-> "ffffff", mode |-> {}],
     selection_style |-> [bg |-> "3737ac", fg |-> "ffffff", mode |-> {}],
     cursor_style |-> [bg |-> "ffffff", fg |-> "000000", mode |-> {}],
     cursor_style_ins |-> [bg |-> "e63f32", fg |-> "ffffff", mode |-> {}],
     cursor_style_sel |-> [bg |-> "24acf2", fg |-> "ffffff", mode |-> {}]]

\* format_styled_text: the control characters are spelled out, a tab is four
\* spaces, every other character (the newline too) stands for itself
ControlText(c) ==
    CASE c = "NUL" -> <<"<", "N", "U", "L", ">">>
      [] c = "SOH" -> <<"<", "S", "O", "H", ">">>
      [] c = "CR" -> <<"<", "C", "R", ">">>
      [] c = "ESC" -> <<"<", "E", "S", "C", ">">>
      [] c = "DEL" -> <<"<", "D", "E", "L", ">">>
      [] c = "TAB" -> <<" ", " ", " ", " ">>
      [] OTHER -> <<c>>

format_styled_text(c, style) ==
    [k \in 1 .. Len(ControlText(c)) |-> StyledChar(ControlText(c)[k], style)]

\* cur_style of process
cur_style(t, info) ==
    IF t.selection_mode THEN info.cursor_style_sel
    ELSE IF t.insert_mode THEN info.cursor_style_ins ELSE info.cursor_style

\* what iteration i of the loop of process appends to the result
process_step(t, info, i) ==
    IF i = t.cursor
    THEN (IF i = Len(t.data) \/ t.data[i + 1] = Newline
          THEN <<StyledChar(" ", cur_style(t, info))>> ELSE <<>>)
         \o (IF i < Len(t.data) THEN format_styled_text(t.data[i + 1], cur_style(t, info))
             ELSE <<>>)
    ELSE IF i < Len(t.data)
    THEN (IF t.selection_mode
             /\ get_selection_range(t)[1] <= i /\ i < get_selection_range(t)[2]
          THEN format_styled_text(t.data[i + 1], info.selection_style)
          ELSE format_styled_text(t.data[i + 1], info.text_style))
    ELSE <<>>

\* for (size_t i = 0; i <= data.size(); i++)
RECURSIVE process_from(_, _, _)
process_from(t, info, i) ==
    IF i > Len(t.data) THEN <<>>
    ELSE process_step(t, info, i) \o process_from(t, info, i + 1)

process(t, info) == process_from(t, info, 0)

\* the end of TextInput: the text is processed and handed to RichTextBox
TextInputProcess(info) ==
    /\ rendered' = process(text_state, info)
    /\ UNCHANGED <<text_state, last_key, calls>>
    /\ UNCHANGED <<frameVars, scrollVars, inputVars, asked, pollVars, termVars>>

RenderKeys ==
    {Key("K_A", "a"), Key("ENTER", "CR"), ShiftKey("LEFT", "NUL"), Key("INSERT", "NUL")}

NextRender ==
    \/ \E ev \in RenderKeys : TextInputEvent(ev)
    \/ TextInputProcess(TextInputInfo)

SpecRender == InitText /\ [][NextRender]_vars

\* where unit i of the text t is in the result of process: one place per
\* unit, and one more from the cursor on when the cursor stands on a newline
\* (the space shown in front of it)
PlaceOf(t, i) ==
    i + 1 + (IF t.cursor <= i /\ t.data[t.cursor + 1] = Newline THEN 1 ELSE 0)

InSelection(t, i) ==
    t.selection_mode /\ get_selection_range(t)[1] <= i /\ i < get_selection_range(t)[2]

\* C38: in the rendered text every unit has the first style that applies in
\* the order selection, cursor, plain: a unit inside the selection range is
\* selection-styled even when it is the unit at the cursor
C38_SelectionBeforeCursor ==
    [][TextInputProcess(TextInputInfo) =>
        \A i \in 0 .. Len(text_state.data) - 1 :
            rendered'[PlaceOf(text_state, i)].style =
                IF InSelection(text_state, i) THEN TextInputInfo.selection_style
                ELSE IF i = text_state.cursor THEN cur_style(text_state, TextInputInfo)
                ELSE TextInputInfo.text_style]_vars

\* the styles in the order cursor, selection, plain
C38_CursorBeforeSelection ==
    [][TextInputProcess(TextInputInfo) =>
        \A i \in 0 .. Len(text_state.data) - 1 :
            /\ rendered'[PlaceOf(text_state, i)].value = text_state.data[i + 1]
            /\ rendered'[PlaceOf(text_state, i)].style =
                 IF i = text_state.cursor THEN cur_style(text_state, TextInputInfo)
                 ELSE IF InSelection(text_state, i) THEN TextInputInfo.selection_style
                 ELSE TextInputInfo.text_style]_vars

(***************************************************************************)
(* SpecBox: cells set directly in a scroll pane, at coordinates inside and *)
(* outside of the pivot window (ScrollBox::transform, nite.cpp:376-383).   *)
(***************************************************************************)
MaxCoord == 3       \* largest content coordinate passed to SetCell

BoxPositions == {Pos(c, r) : c \in 0 .. MaxCoord, r \in 0 .. MaxCoord}

NextBox ==
    \/ (swapchain = <<>> /\ BeginDrawing)
    \/ EndDrawing
    \/ (call_depth = 0 /\ BeginScrollPane(scroll_info))
    \/ EndPane
    \/ \E p \in BoxPositions : SetCell("a", p, RedBold)

SpecBox == InitNest /\ [][NextBox]_vars

\* SetCell is called with a scroll pane on top of the stack
DrawsInScrollPane ==
    /\ phase = "drawing" /\ phase' = "drawing" /\ ndraws' = ndraws + 1
    /\ box_stack # <<>> /\ box_stack' = box_stack
    /\ box_stack[Len(box_stack)].kind = "ScrollBox"

\* pivot <= p < pivot + min_size on both axes
InPivotWindow(box, p) ==
    /\ box.pivot.col <= p.col /\ p.col < box.pivot.col + box.size.width
    /\ box.pivot.row <= p.row /\ p.row < box.pivot.row + box.size.height

\* pos + p - pivot
Rebased(box, p) ==
    Pos(box.pos.col + p.col - box.pivot.col, box.pos.row + p.row - box.pivot.row)

\* q lies in the viewport rectangle [pos, pos + min_size)
InViewportOf(box, q) ==
    /\ box.pos.col <= q.col /\ q.col < box.pos.col + box.size.width
    /\ box.pos.row <= q.row /\ q.row < box.pos.row + box.size.height

\* C39: a cell set at the content coordinate p of a scroll pane lands at the
\* screen position pos + p - pivot, inside the viewport [pos, pos + min_size),
\* exactly when pivot <= p < pivot + min_size on both axes; a coordinate
\* outside of the pivot window is rejected and changes nothing
C39_TransformWindow ==
    [][\A p \in BoxPositions :
          (DrawsInScrollPane /\ asked' = {p}) =>
             IF InPivotWindow(box_stack[Len(box_stack)], p)
             THEN /\ InViewportOf(box_stack[Len(box_stack)],
                                  Rebased(box_stack[Len(box_stack)], p))
                  /\ swapchain' =
                       [swapchain EXCEPT
                          ![Len(swapchain)].cells[
                              Rebased(box_stack[Len(box_stack)], p).row
                                  * swapchain[Len(swapchain)].width
                              + Rebased(box_stack[Len(box_stack)], p).col] =
                                 [value |-> "a", style |-> RedBold]]
             ELSE swapchain' = swapchain]_vars

\* with the pivot at {1,1} and the viewport at {1,0} the cell set at the
\* content coordinate {2,2} is the screen cell {2,1}
C39_Witness ==
    /\ phase = "drawing" /\ box_stack # <<>>
    /\ box_stack[Len(box_stack)].kind = "ScrollBox"
    /\ box_stack[Len(box_stack)].pivot = Pos(1, 1)
    /\ box_stack[Len(box_stack)].pos = Pos(1, 0)
    /\ asked = {Pos(2, 2)}
    /\ buffer_at(swapchain[Len(swapchain)], 2, 1) = [value |-> "a", style |-> RedBold]
    /\ \A i \in DOMAIN swapchain[Len(swapchain)].cells :
          i # 5 => swapchain[Len(swapchain)].cells[i] = DefaultCell
====
